---- MODULE Spec2Model ----
(***************************************************************************)
(* Orchestration engine of the job-application bot: the persisted job      *)
(* registry, the discovery (pagination) walk, and the event-driven worker  *)
(* pool.  The orchestrator modelled is the concurrent-tab version          *)
(* (src/unnamed/part_002); the registry is the JobRegistry class           *)
(* (src/apps/extension/src/services/claude.ts).                            *)
(*                                                                         *)
(* The program runs on a single-threaded event loop.  A step of the model  *)
(* is one macrotask: the code an async function runs from the completion   *)
(* of one external wait (timer, storage, tab or page-driver round trip)    *)
(* up to its next external wait.  Awaits that are settled by already       *)
(* resolved promises (registry.isKnown / load once loaded) do not yield    *)
(* to other macrotasks and stay inside the step.                           *)
(***************************************************************************)
EXTENDS Integers, Sequences, FiniteSets, Bags, TLC

\* ---------------------------------------------------------------- bounds
\* Job keys the listing site can show.
MaxKeys == 2
\* Search-result pages of one query that can hold links.
MaxPages == 2
\* Links on one search-result page.
MaxLinks == 1
\* Search URLs configured in the settings.
MaxQueries == 2
\* settings.concurrentTabs values tried (1..MaxTabs).
MaxTabs == 2
\* start() calls the user makes in one behaviour.
MaxRuns == 1
\* start() calls and page signals in one behaviour of the control-surface
\* specification.
MaxStartCalls == 2
ControlSignals == 1
\* Registry writes that may be in flight at once (registry specification).
MaxInFlight == 2
\* Page signals (step advanced, submitted) delivered in one behaviour.
MaxSignals == 2
\* entries the answer cache may hold
MaxEntries == 2
\* Page signals in one behaviour of the personalization specification.
TailorSignals == 1
\* Pages of the listings walked in the parallel-round specification.
ParallelPages == 3
\* Apply limits tried (1..MaxLimit) and page signals delivered in one
\* behaviour of the apply-limit specification.
MaxLimit == 2
LimitSignals == 3
\* Page signals delivered in one behaviour of the pool-termination
\* specification.
DrainSignals == 2
\* store() calls made on the answer cache in one behaviour of the
\* overlapping-calls specification.
MaxStoreCalls == 2

\* ------------------------------------------------------ program constants
JOBS_PER_PAGE == 10
EMPTY_STREAK_LIMIT == 3
\* for (let attempt = 0; attempt < 15; attempt++)
WIZARD_ATTEMPTS == 15

Keys == 1..MaxKeys
Reasons == {"external_apply", "no_apply_button"}
NoTab == 0

VARIABLES
  state,              \* BotState
  stopRequested,      \* cooperative cancellation flag
  settings,           \* Settings of the last accepted start()
  appliedCount, skippedCount, failedCount,
  jobs,               \* every JobEntry object allocated so far (field gen)
  jobsGen,            \* which of them are in the current `jobs` array
  tabWorkers,         \* every TabWorker object allocated so far (field list)
  listGen,            \* which of them are in the current `tabWorkers` array
  collectionTabId,    \* tab kept from discovery (NoTab = null)
  nextTabId,          \* next tab id the browser hands out
  estimatedTotalJobs, totalPages,
  applied, skipped,   \* JobRegistry in-memory set and map
  storeQueue,         \* chrome.storage.local.set calls in flight (FIFO)
  stored,             \* the persisted registry document
  loaded,             \* JobRegistry.loaded
  userSettings,       \* the settings document START_BOT reads
  runs,               \* one continuation per accepted startBot call
  chains,             \* continuations running worker pipelines
  site,               \* what the page driver returns: query -> page -> links
  log,                \* per finished query: the summary line and its history
  budget,             \* start() calls and page signals still to come
  returned,           \* history: keys whose mark call has returned
  saved,              \* history: keys whose mutation has been persisted
  reloaded,           \* history: the registry was loaded after such a write
  entries,            \* AnswerCache.entries
  cacheLoaded,        \* AnswerCache.loaded
  cacheStored,        \* the persisted answer cache document
  reply,              \* the last answer-cache request and its response
  cacheQueue,         \* chrome.storage.local calls of the cache in flight
  stores              \* history: the store() calls that have returned

vars == <<state, stopRequested, settings, appliedCount, skippedCount,
          failedCount, jobs, jobsGen, tabWorkers, listGen, collectionTabId,
          nextTabId, estimatedTotalJobs, totalPages, applied, skipped,
          storeQueue, stored, loaded, userSettings, runs, chains, site, log,
          budget, returned, saved, reloaded, entries, cacheLoaded,
          cacheStored, reply, cacheQueue, stores>>

cacheVars == <<entries, cacheLoaded, cacheStored, reply, cacheQueue,
               stores>>

orchVars == <<state, stopRequested, settings, appliedCount, skippedCount,
              failedCount, jobs, jobsGen, tabWorkers, listGen,
              collectionTabId, nextTabId, estimatedTotalJobs, totalPages,
              userSettings, runs, chains, site, cacheVars, log, budget>>

\* ================================================================ helpers
Min2(a, b) == IF a < b THEN a ELSE b

SetMin(S) == CHOOSE x \in S : \A y \in S : x <= y

RECURSIVE SortedArray(_)
\* Array.from(set).sort()
SortedArray(S) == IF S = {} THEN <<>>
                  ELSE LET m == SetMin(S) IN <<m>> \o SortedArray(S \ {m})

\* new Set(array)
SeqToSet(s) == {s[i] : i \in 1..Len(s)}

\* ========================================================== Job registry
\* RegistryData as written by save(): sorted applied array, skipped record.
RegistryData(a, s) == [applied |-> SortedArray(a), skipped |-> s]

\* JobRegistry.isKnown
isKnown(k) == k \in applied \/ k \in DOMAIN skipped

\* Map.delete / Map.set on the skipped map
MapDelete(m, k) == [x \in (DOMAIN m) \ {k} |-> m[x]]
MapSet(m, k, r) == [x \in (DOMAIN m) \cup {k} |-> IF x = k THEN r ELSE m[x]]

\* In-memory effect of markApplied(k): applied.add(k); skipped.delete(k)
AppliedAfterMarkApplied(k) == applied \cup {k}
\* (markApplied without the skipped.delete(k))
SkippedKeptOnMarkApplied(k) == skipped
SkippedAfterMarkApplied(k) == MapDelete(skipped, k)

\* markSkipped(k, r) returns early, without mutation, on an applied key
MarkSkippedIsNoop(k) == k \in applied
SkippedAfterMarkSkipped(k, r) == MapSet(skipped, k, r)

\* save(): snapshot the memory and hand it to chrome.storage.local.set
Write(a, s, k, w) == [doc |-> RegistryData(a, s), key |-> k, writer |-> w]

\* markApplied(k) called by writer w (0: a direct caller of the registry)
markApplied(k, w) ==
  /\ applied' = AppliedAfterMarkApplied(k)
  /\ skipped' = SkippedAfterMarkApplied(k)
  /\ storeQueue' = Append(storeQueue,
        Write(AppliedAfterMarkApplied(k), SkippedAfterMarkApplied(k), k, w))

\* markSkipped(k, r) called by writer w, on a key that is not applied
markSkipped(k, r, w) ==
  /\ applied' = applied
  /\ skipped' = SkippedAfterMarkSkipped(k, r)
  /\ storeQueue' = Append(storeQueue,
        Write(applied, SkippedAfterMarkSkipped(k, r), k, w))

\* load() of a fresh JobRegistry from the persisted document
\* (a load that drops the persisted applied array)
LoadedAppliedDropped == {}
LoadedApplied == SeqToSet(stored.applied)
LoadedSkipped == stored.skipped

\* ---- registry operations invoked directly (registry specification)
RegMarkApplied(k) ==
  /\ loaded
  /\ Len(storeQueue) < MaxInFlight
  /\ markApplied(k, 0)
  /\ UNCHANGED <<stored, loaded, returned, saved, reloaded, orchVars>>

RegMarkSkipped(k, r) ==
  /\ loaded
  /\ Len(storeQueue) < MaxInFlight
  /\ IF MarkSkippedIsNoop(k)
       THEN /\ returned' = returned \cup {k}
            /\ UNCHANGED <<applied, skipped, storeQueue>>
       ELSE /\ markSkipped(k, r, 0)
            /\ UNCHANGED returned
  /\ UNCHANGED <<stored, loaded, saved, reloaded, orchVars>>

\* chrome.storage.local.set of the oldest write completes (the store serves
\* its calls in order); its caller returns
StorageSetDone ==
  /\ storeQueue # <<>>
  /\ Head(storeQueue).writer = 0
  /\ stored' = Head(storeQueue).doc
  /\ storeQueue' = Tail(storeQueue)
  /\ returned' = returned \cup {Head(storeQueue).key}
  /\ saved' = saved \cup {Head(storeQueue).key}
  /\ UNCHANGED <<applied, skipped, loaded, reloaded, orchVars>>

\* The process ends and a fresh JobRegistry loads the store; writes that
\* were still in flight are lost with the process, and so is what a
\* markSkipped that returned early (it writes nothing) had reported.
RegistryReload ==
  /\ applied' = LoadedApplied
  /\ skipped' = LoadedSkipped
  /\ loaded' = TRUE
  /\ storeQueue' = <<>>
  /\ returned' = saved
  /\ reloaded' = (saved # {})
  /\ UNCHANGED <<stored, saved, orchVars>>

\* =========================================================== Page driver
\* The page driver is an external collaborator.  With site.free it may answer
\* COLLECT_LINKS with any page within the bounds (no links beyond page
\* MaxPages); otherwise it follows the listing site.queries, whose pages
\* report no total count and no filtered card.
SeqsUpTo(S, n) == UNION {[1..m -> S] : m \in 0..n}

\* what one search-result page can list
PageSet == SeqsUpTo(Keys, MaxLinks)

\* COLLECT_LINKS payloads possible on page p of query q
PageChoices(q, p) ==
  IF site.free
    THEN IF p <= MaxPages THEN PageSet ELSE {<<>>}
    ELSE IF q \in 1..Len(site.queries) /\ p \in 1..Len(site.queries[q])
           THEN {site.queries[q][p]} ELSE {<<>>}

\* the payloads of the n pages pn, pn+1, ... fetched in one parallel round
RECURSIVE BatchChoices(_, _, _)
BatchChoices(q, pn, n) ==
  IF n = 0 THEN {<<>>}
  ELSE {<<h>> \o t : h \in PageChoices(q, pn),
                      t \in BatchChoices(q, pn + 1, n - 1)}

\* orders in which the n collectSinglePage calls of one round can complete
\* (a sequence of the indices of the page assignments)
Orders(n) == {o \in [1..n -> 1..n] : \A i, j \in 1..n : o[i] = o[j] => i = j}

\* GET_TOTAL_COUNT payloads (0: no count available)
EstChoices == IF site.free THEN {0, JOBS_PER_PAGE, 2 * JOBS_PER_PAGE} ELSE {site.est}

\* whether a page without links still reports cards (all filtered out)
CardChoices == IF site.free THEN BOOLEAN ELSE {FALSE}

CeilDiv(a, b) == (a + b - 1) \div b

\* ============================================================ Orchestrator
NullSettings == [searchUrls |-> 0, concurrentTabs |-> 0, maxApplies |-> 0,
                 personalization |-> FALSE, backendUrl |-> FALSE]

\* Objects of the current `jobs` / `tabWorkers` arrays (indices, array order)
CurJobs(J) == {i \in 1..Len(J) : J[i].gen = jobsGen}
CurWorkers(W) == {w \in 1..Len(W) : W[w].list = listGen}

PendingJobs(J) == {i \in CurJobs(J) : J[i].status = "pending"}
hasPending(J) == PendingJobs(J) # {}

\* jobs.find((j) => j.status === 'pending') || null   (0 = null)
getNextPendingJob(J) ==
  IF PendingJobs(J) = {} THEN 0 ELSE SetMin(PendingJobs(J))

\* tabWorkers.filter((w) => w.state !== 'done').length
activeWorkers(W) == Cardinality({w \in CurWorkers(W) : W[w].state # "done"})

\* settings.concurrentTabs || 1
concurrentTabs == IF settings.concurrentTabs = 0 THEN 1
                  ELSE settings.concurrentTabs

NewJob(k) == [jobKey |-> k, status |-> "pending", skipReason |-> "",
              gen |-> jobsGen]

\* locals of one startBot call; nonEmptyPages and conforming are history of the
\* current query: pages with links so far, and whether the pages so far are
\* pages with links followed only by pages without links or cards; barren
\* counts the latest pages in a row that added no job to the queue; order is
\* the order in which the pages of the latest round completed; poolStart
\* is history of collectAndApply: whether the call has assigned and broadcast
\* state = 'applying' ("no"), and if so with the cancellation flag clear
\* ("live") or set ("stopped")
NewRun == [pc |-> "loading", searchIdx |-> 0, seen |-> {}, tab0 |-> NoTab,
           nextPage |-> 1, streak |-> 0, batch |-> 0, scrapingTabs |-> 0,
           i |-> 0, numWorkers |-> 0, nonEmptyPages |-> 0, conforming |-> TRUE,
           barren |-> 0, order |-> <<>>, poolStart |-> "no"]

\* ---- launchNextWorker, up to its first suspension point
\* the guards in front of the claim
\* (the guards without the stopRequested test)
LaunchRefusedUnlessStopped(J) ==
  \/ settings = NullSettings
  \/ (settings.maxApplies > 0 /\ appliedCount >= settings.maxApplies)
  \/ getNextPendingJob(J) = 0
LaunchRefused(J) ==
  \/ stopRequested
  \/ settings = NullSettings
  \/ (settings.maxApplies > 0 /\ appliedCount >= settings.maxApplies)
  \/ getNextPendingJob(J) = 0

\* job.status = 'skipped'; job.skipReason = 'in_progress'
\* (a launch that leaves the job pending until its first wait is over)
ClaimJobDeferred(J, j) == J
ClaimJob(J, j) ==
  [J EXCEPT ![j].status = "skipped", ![j].skipReason = "in_progress"]

\* the TabWorker pushed for job j
NewWorker(reuseTabId, j) ==
  [tabId |-> reuseTabId, job |-> j, state |-> "navigating", list |-> listGen,
   cvPayload |-> "none"]

\* A continuation of prepareAndFillJob, sendFillCommand or a signal handler:
\* its worker, its position, the run whose loop awaits it, and its locals:
\* the tailored PDFs it holds (pdfs) and the WIZARD_READY polls it has sent
\* (attempt).  A command is one sendToTab call; the deliveries sendToTab
\* retries before it reports no response belong to the same command.
Continuation(w, pc, awaiter) ==
  [w |-> w, pc |-> pc, awaiter |-> awaiter, pdfs |-> "none", attempt |-> 0]

\* Result of launchNextWorker(reuseTabId) called with jobs J, workers W and
\* continuations C; `awaiter` is the run whose loop awaits the call (0: none)
launchNextWorker(J, W, C, reuseTabId, awaiter) ==
  IF LaunchRefused(J)
    THEN [jobs |-> J, tabWorkers |-> W, chains |-> C]
    ELSE LET j == getNextPendingJob(J) IN
         [jobs |-> ClaimJob(J, j),
          tabWorkers |-> Append(W, NewWorker(reuseTabId, j)),
          chains |-> C (+) SetToBag({Continuation(Len(W) + 1, "nav",
                                                  awaiter)})]

\* ---- the tail of startBot: finally { state = 'idle' }
Settle(r, rec, J, W, C, ctab, ntab, etj, tp, L) ==
  /\ state' = "idle"
  /\ runs' = [runs EXCEPT ![r] = [rec EXCEPT !.pc = "settled"]]
  /\ jobs' = J /\ tabWorkers' = W /\ chains' = C
  /\ collectionTabId' = ctab /\ nextTabId' = ntab
  /\ estimatedTotalJobs' = etj /\ totalPages' = tp /\ log' = L

\* ---- the pool loop of collectAndApply, from the top of `while`
PollTop(r, rec, st, J, ctab, ntab, etj, tp, L) ==
  IF stopRequested \/ (activeWorkers(tabWorkers) = 0 /\ ~hasPending(J))
    THEN Settle(r, rec, J, tabWorkers, chains, ctab, ntab, etj, tp, L)
    ELSE LET res == IF activeWorkers(tabWorkers) = 0 /\ hasPending(J)
                      THEN launchNextWorker(J, tabWorkers, chains, NoTab, r)
                      ELSE [jobs |-> J, tabWorkers |-> tabWorkers,
                            chains |-> chains]
         IN /\ state' = st
            /\ runs' = [runs EXCEPT ![r] = [rec EXCEPT !.pc = "pollWait"]]
            /\ jobs' = res.jobs /\ tabWorkers' = res.tabWorkers
            /\ chains' = res.chains
            /\ collectionTabId' = ctab /\ nextTabId' = ntab
            /\ estimatedTotalJobs' = etj /\ totalPages' = tp /\ log' = L

\* numWorkers = min(maxTabs, pendingJobs.length, remaining)
numWorkers(J) ==
  LET pendingCount == Cardinality(PendingJobs(J))
      remaining == IF settings.maxApplies > 0
                     THEN settings.maxApplies - appliedCount
                     ELSE pendingCount
  IN Min2(Min2(concurrentTabs, pendingCount), remaining)

\* ---- collectAndApply after collectAllJobs has returned
BeginApplying(r, rec0, J, ctab, ntab, etj, tp, L) ==
  LET rec == [rec0 EXCEPT !.poolStart = IF stopRequested THEN "stopped"
                                        ELSE "live"]
  IN
  IF ~hasPending(J)
    THEN Settle(r, rec0, J, tabWorkers, chains, ctab, ntab, etj, tp, L)
  ELSE IF stopRequested
    \* state = 'applying' is assigned and broadcast, both loops are skipped,
    \* then the finally block, all before the next wait
    THEN Settle(r, rec, J, tabWorkers, chains, NoTab, ntab, etj, tp, L)
  ELSE IF numWorkers(J) <= 0
    THEN PollTop(r, rec, "applying", J, NoTab, ntab, etj, tp, L)
  ELSE LET res == launchNextWorker(J, tabWorkers, chains, ctab, r) IN
       /\ state' = "applying"
       /\ runs' = [runs EXCEPT ![r] = [rec EXCEPT !.pc = "launchWait",
                      !.i = 0, !.numWorkers = numWorkers(J)]]
       /\ jobs' = res.jobs /\ tabWorkers' = res.tabWorkers
       /\ chains' = res.chains
       /\ collectionTabId' = NoTab /\ nextTabId' = ntab
       /\ estimatedTotalJobs' = etj /\ totalPages' = tp /\ log' = L

\* ---- collectAllJobs: top of the per-query `for` loop for query idx
NextQuery(r, rec, idx, J, ctab, ntab, etj, tp, L) ==
  IF idx <= settings.searchUrls /\ ~stopRequested
    THEN LET fresh == (ctab = NoTab)
             tab == IF fresh THEN ntab ELSE ctab
         IN /\ runs' = [runs EXCEPT ![r] = [rec EXCEPT !.pc = "firstPage",
                          !.searchIdx = idx, !.seen = {}, !.tab0 = tab,
                          !.nextPage = 1, !.streak = 0, !.batch = 0,
                          !.nonEmptyPages = 0, !.conforming = TRUE,
                          !.barren = 0]]
            /\ jobs' = J
            /\ collectionTabId' = ctab
            /\ nextTabId' = IF fresh THEN ntab + 1 ELSE ntab
            /\ estimatedTotalJobs' = 0 /\ totalPages' = 0 /\ log' = L
            /\ UNCHANGED <<state, tabWorkers, chains>>
    ELSE BeginApplying(r, rec, J, ctab, ntab, etj, tp, L)

\* pages assigned to the scraping tabs for one parallel round
pageAssignments(rec, etj, tp) ==
  Cardinality({i \in 0..(rec.scrapingTabs - 1) :
                 ~(etj > 0 /\ tp > 0 /\ rec.nextPage + i > tp)})

\* "Collection complete: ... (${nextPage - 1} pages)", with the history of
\* the query
Summary(rec, etj) ==
  [pages |-> rec.nextPage - 1, est |-> etj,
   nonEmptyPages |-> rec.nonEmptyPages, conforming |-> rec.conforming]

\* ---- collectAllJobs: end of one query (summary log, keep first tab)
QueryDone(r, rec, J, etj, tp) ==
  NextQuery(r, rec, rec.searchIdx + 1, J, rec.tab0, nextTabId, etj, tp,
            Append(log, Summary(rec, etj)))

\* the condition of `while (!stopRequested && globalEmptyStreak < 3)`
StreakContinues(streak) == ~stopRequested /\ streak < EMPTY_STREAK_LIMIT

\* ---- collectAllJobs: top of the `while` loop of the parallel phase
LoopTop(r, rec, J, etj, tp) ==
  IF /\ StreakContinues(rec.streak)
     /\ ~(etj > 0 /\ tp > 0 /\ rec.nextPage > tp)
     /\ pageAssignments(rec, etj, tp) > 0
    THEN /\ runs' = [runs EXCEPT ![r] = [rec EXCEPT !.pc = "batch",
                        !.batch = pageAssignments(rec, etj, tp)]]
         /\ jobs' = J
         /\ estimatedTotalJobs' = etj /\ totalPages' = tp
         /\ UNCHANGED <<state, tabWorkers, chains, collectionTabId,
                        nextTabId, log>>
    ELSE QueryDone(r, rec, J, etj, tp)

\* ---- link filtering of one page (same code for page 1 and later pages)
DropAsDuplicate(k, seen) == k \in seen
\* (a filter that does not consult the registry)
DropAsKnownSkipped(k) == FALSE
DropAsKnown(k) == isKnown(k)

RECURSIVE AddLinks(_, _, _)
AddLinks(links, seen, J) ==
  IF links = <<>> THEN [seen |-> seen, jobs |-> J]
  ELSE LET k == Head(links) IN
       IF DropAsDuplicate(k, seen) THEN AddLinks(Tail(links), seen, J)
       ELSE IF DropAsKnown(k) THEN AddLinks(Tail(links), seen \cup {k}, J)
       ELSE AddLinks(Tail(links), seen \cup {k}, Append(J, NewJob(k)))

\* globalEmptyStreak after a page with the given links
StreakAfter(streak, links) == IF links = <<>> THEN streak + 1 ELSE 0

\* pages in a row without a new job, after a page that left the queue at
\* J1 where it was J0
BarrenAfter(barren, J0, J1) == IF Len(J1) > Len(J0) THEN 0 ELSE barren + 1

\* history of the pages returned for the current query
Shape(acc, links) ==
  [nonEmptyPages |-> acc.nonEmptyPages + (IF links = <<>> THEN 0 ELSE 1),
   conforming |-> acc.conforming /\ (links = <<>> \/ acc.nonEmptyPages = acc.pages)]

\* Promise.all over the page assignments: each call, as it completes,
\* settles the slot of its assignment; the array is read once all are settled
RECURSIVE Settled(_, _, _)
Settled(results, pages, order) ==
  IF order = <<>> THEN results
  ELSE Settled([results EXCEPT ![Head(order)] = pages[Head(order)]], pages,
               Tail(order))

\* (an array filled in the order of completion)
PromiseAllAsCompleted(pages, order) ==
  [k \in 1..Len(pages) |-> pages[order[k]]]
PromiseAll(pages, order) ==
  Settled([i \in 1..Len(pages) |-> <<>>], pages, order)

\* results of one parallel round, processed in page order
RECURSIVE ProcessResults(_, _)
ProcessResults(pages, acc) ==
  IF pages = <<>> THEN acc
  ELSE LET links == Head(pages)
           res == AddLinks(links, acc.seen, acc.jobs)
       IN ProcessResults(Tail(pages),
            [seen |-> res.seen, jobs |-> res.jobs,
             streak |-> StreakAfter(acc.streak, links),
             pages |-> acc.pages + 1,
             barren |-> BarrenAfter(acc.barren, acc.jobs, res.jobs),
             nonEmptyPages |-> Shape(acc, links).nonEmptyPages,
             conforming |-> Shape(acc, links).conforming])

\* early exit: enough pending jobs for maxApplies
EnoughPending(J) ==
  settings.maxApplies > 0
    /\ Cardinality(PendingJobs(J)) >= settings.maxApplies

regVars == <<applied, skipped, storeQueue, stored, loaded, returned, saved,
             reloaded>>

\* ================================================= control surface actions
\* startBot(userSettings), up to `await registry.load()`
\* (a start that does not look at the state)
StartAcceptedAlways == TRUE
\* if (state !== 'idle') return
StartAccepted == state = "idle"

Start ==
  /\ budget.starts > 0
  /\ budget' = [budget EXCEPT !.starts = budget.starts - 1]
  /\ IF StartAccepted
       THEN /\ settings' = userSettings
            /\ state' = "collecting"
            /\ appliedCount' = 0 /\ skippedCount' = 0 /\ failedCount' = 0
            /\ jobsGen' = IF CurJobs(jobs) = {} THEN jobsGen ELSE jobsGen + 1
            /\ listGen' = IF CurWorkers(tabWorkers) = {} THEN listGen
                          ELSE listGen + 1
            /\ log' = <<>>
            /\ stopRequested' = FALSE
            /\ collectionTabId' = NoTab
            /\ runs' = Append(runs, NewRun)
       ELSE UNCHANGED <<settings, state, appliedCount, skippedCount,
                        failedCount, jobsGen, listGen, log, stopRequested,
                        collectionTabId, runs>>
  /\ UNCHANGED <<jobs, tabWorkers, nextTabId, estimatedTotalJobs, totalPages,
                 userSettings, chains, site, cacheVars, regVars>>

\* stopBot()
Stop ==
  /\ stopRequested' = TRUE
  /\ state' = "idle"
  /\ listGen' = IF CurWorkers(tabWorkers) = {} THEN listGen ELSE listGen + 1
  /\ UNCHANGED <<settings, appliedCount, skippedCount, failedCount, jobs,
                 jobsGen, tabWorkers, collectionTabId, nextTabId,
                 estimatedTotalJobs, totalPages, userSettings, runs, chains,
                 site, cacheVars, log, budget, regVars>>

\* pauseBot()
Pause ==
  /\ state \in {"applying", "collecting"}
  /\ state' = "paused"
  /\ UNCHANGED <<stopRequested, settings, appliedCount, skippedCount,
                 failedCount, jobs, jobsGen, tabWorkers, listGen,
                 collectionTabId, nextTabId, estimatedTotalJobs, totalPages,
                 userSettings, runs, chains, site, cacheVars,
                 log, budget, regVars>>

\* resumeBot()
Resume ==
  /\ state = "paused"
  /\ state' = "applying"
  /\ UNCHANGED <<stopRequested, settings, appliedCount, skippedCount,
                 failedCount, jobs, jobsGen, tabWorkers, listGen,
                 collectionTabId, nextTabId, estimatedTotalJobs, totalPages,
                 userSettings, runs, chains, site, cacheVars,
                 log, budget, regVars>>

\* ======================================================= startBot, the run
\* registry.load(), cache.load(), loadTemplates() have completed; the run
\* enters collectAndApply -> collectAllJobs up to its first wait
RunLoaded(r) ==
  /\ runs[r].pc = "loading"
  /\ applied' = IF loaded THEN applied ELSE LoadedApplied
  /\ skipped' = IF loaded THEN skipped ELSE LoadedSkipped
  /\ loaded' = TRUE
  /\ NextQuery(r, [runs[r] EXCEPT !.scrapingTabs = concurrentTabs], 1, jobs,
               collectionTabId, nextTabId, estimatedTotalJobs, totalPages,
               log)
  /\ UNCHANGED <<stopRequested, settings, appliedCount, skippedCount,
                 failedCount, jobsGen, listGen, userSettings, site, cacheVars,
                 budget,
                 storeQueue, stored, returned, saved, reloaded>>

\* chrome.storage.local.get rejects inside registry.load() / cache.load():
\* the exception leaves startBot before its try block is entered
RunLoadFails(r) ==
  /\ runs[r].pc = "loading"
  /\ ~loaded
  /\ runs' = [runs EXCEPT ![r].pc = "settled"]
  /\ UNCHANGED <<state, stopRequested, settings, appliedCount, skippedCount,
                 failedCount, jobs, jobsGen, tabWorkers, listGen,
                 collectionTabId, nextTabId, estimatedTotalJobs, totalPages,
                 userSettings, chains, site, cacheVars, log, budget, regVars>>

\* ---- collectAllJobs: page 1 of the current query has been collected
RunFirstPage(r, links, jobCount, cards) ==
  /\ runs[r].pc = "firstPage"
  /\ LET rec == runs[r]
         q == rec.searchIdx
         hasEst == jobCount > 0
         etj == IF hasEst THEN jobCount ELSE estimatedTotalJobs
         tp == IF hasEst THEN CeilDiv(jobCount, JOBS_PER_PAGE) ELSE totalPages
         nonEmpty == Len(links) > 0 \/ cards
         res == IF nonEmpty THEN AddLinks(links, rec.seen, jobs)
                ELSE [seen |-> rec.seen, jobs |-> jobs]
         rec1 == [rec EXCEPT !.seen = res.seen,
                             !.streak = IF nonEmpty THEN 0 ELSE 1,
                             !.nonEmptyPages = IF links = <<>> THEN 0 ELSE 1,
                             !.conforming = ~(links = <<>> /\ cards),
                             !.barren = BarrenAfter(0, jobs, res.jobs)]
     IN IF EnoughPending(res.jobs)
          \* `continue`: keep the first tab, no summary log
          THEN NextQuery(r, rec1, q + 1, res.jobs, rec.tab0, nextTabId,
                         etj, tp, log)
          ELSE LoopTop(r, [rec1 EXCEPT !.nextPage = 2], res.jobs, etj, tp)
  /\ UNCHANGED <<stopRequested, settings, appliedCount, skippedCount,
                 failedCount, jobsGen, listGen, userSettings, site, cacheVars,
                 budget,
                 regVars>>

\* ---- collectAllJobs: all pages of one parallel round have been collected,
\* in the given order of completion (kept as history during the delay)
RunBatch(r, pages, order, jobCount) ==
  /\ runs[r].pc = "batch"
  /\ LET rec == runs[r]
         pickUp == estimatedTotalJobs = 0 /\ jobCount > 0
         etj == IF pickUp THEN jobCount ELSE estimatedTotalJobs
         tp == IF pickUp THEN CeilDiv(jobCount, JOBS_PER_PAGE) ELSE totalPages
         res == ProcessResults(PromiseAll(pages, order),
                  [seen |-> rec.seen, jobs |-> jobs, streak |-> rec.streak,
                   pages |-> rec.nextPage - 1, barren |-> rec.barren,
                   nonEmptyPages |-> rec.nonEmptyPages,
                   conforming |-> rec.conforming])
         rec1 == [rec EXCEPT !.seen = res.seen, !.streak = res.streak,
                             !.barren = res.barren,
                             !.nonEmptyPages = res.nonEmptyPages,
                             !.conforming = res.conforming]
     IN IF EnoughPending(res.jobs)
          THEN QueryDone(r, rec1, res.jobs, etj, tp)
          ELSE /\ runs' = [runs EXCEPT ![r] = [rec1 EXCEPT !.pc = "delay",
                              !.nextPage = rec.nextPage + rec.batch,
                              !.order = order]]
               /\ jobs' = res.jobs
               /\ estimatedTotalJobs' = etj /\ totalPages' = tp
               /\ UNCHANGED <<state, tabWorkers, chains, collectionTabId,
                              nextTabId, log>>
  /\ UNCHANGED <<stopRequested, settings, appliedCount, skippedCount,
                 failedCount, jobsGen, listGen, userSettings, site, cacheVars,
                 budget,
                 regVars>>

\* what collectSinglePage returns for the assignments of a round when the
\* calls in `errors` fail (navigation failed, redirected, tab closed):
\* { links: [], error } without stats and without jobCount
Collected(pages, errors) ==
  [i \in 1..Len(pages) |-> IF i \in errors THEN <<>> ELSE pages[i]]

\* ---- collectAllJobs: a parallel round in which the calls in `errors`
\* returned an error result; `globalEmptyStreak++; continue` for each of them
RunRound(r, pages, errors, order, jobCount) ==
  /\ errors \subseteq 1..Len(pages)
  /\ errors = 1..Len(pages) => jobCount = 0
  /\ RunBatch(r, Collected(pages, errors), order, jobCount)

\* ---- collectAllJobs: randomDelay after a round is over
RunDelay(r) ==
  /\ runs[r].pc = "delay"
  /\ LoopTop(r, [runs[r] EXCEPT !.order = <<>>], jobs, estimatedTotalJobs,
             totalPages)
  /\ UNCHANGED <<stopRequested, settings, appliedCount, skippedCount,
                 failedCount, jobsGen, listGen, userSettings, site, cacheVars,
                 budget,
                 regVars>>

\* no launchNextWorker call awaited by run r is still running
LaunchReturned(r) == \A c \in BagToSet(chains) : c.awaiter # r

\* ---- collectAndApply: the awaited launch returned and delay(500) is over
RunLaunchWait(r) ==
  /\ runs[r].pc = "launchWait"
  /\ LaunchReturned(r)
  /\ LET rec == [runs[r] EXCEPT !.i = runs[r].i + 1] IN
       IF rec.i < rec.numWorkers /\ ~stopRequested
         THEN LET res == launchNextWorker(jobs, tabWorkers, chains, NoTab, r)
              IN /\ runs' = [runs EXCEPT ![r] = rec]
                 /\ jobs' = res.jobs /\ tabWorkers' = res.tabWorkers
                 /\ chains' = res.chains
                 /\ UNCHANGED <<state, collectionTabId, nextTabId,
                                estimatedTotalJobs, totalPages, log>>
         ELSE PollTop(r, rec, state, jobs, collectionTabId, nextTabId,
                      estimatedTotalJobs, totalPages, log)
  /\ UNCHANGED <<stopRequested, settings, appliedCount, skippedCount,
                 failedCount, jobsGen, listGen, userSettings, site, cacheVars,
                 budget,
                 regVars>>

\* ---- collectAndApply: delay(1000) of the pool loop is over
RunPollWait(r) ==
  /\ runs[r].pc = "pollWait"
  /\ LaunchReturned(r)
  /\ PollTop(r, runs[r], state, jobs, collectionTabId, nextTabId,
             estimatedTotalJobs, totalPages, log)
  /\ UNCHANGED <<stopRequested, settings, appliedCount, skippedCount,
                 failedCount, jobsGen, listGen, userSettings, site, cacheVars,
                 budget,
                 regVars>>

\* ========================================================= worker pipeline
\* bag of continuations with c replaced by its successors
Without(c) == chains (-) SetToBag({c})
Became(c, d) == Without(c) (+) SetToBag({d})
Moved(c, pc) == Became(c, [c EXCEPT !.pc = pc])

\* finishWorkerAndReuseTab: the continuation either waits delay(1000) before
\* launchNextWorker(worker.tabId), or returns
RelaunchPlanned(J) == ~stopRequested /\ hasPending(J)
AfterFinish(c, J) == IF RelaunchPlanned(J)
                       THEN Became(c, Continuation(c.w, "relaunch", c.awaiter))
                     ELSE Without(c)

\* worker.state = 'done'
Done(w) == [tabWorkers EXCEPT ![w].state = "done"]

orchRest == <<state, stopRequested, settings, jobsGen, listGen,
              collectionTabId, estimatedTotalJobs, totalPages, userSettings,
              runs, site, cacheVars, log>>
pipeRest == <<orchRest, budget>>

\* prepareAndFillJob: tab reused or created, page loaded, URL verified.
\* A failing tab call throws into the catch block of launchNextWorker.
ChainNav(c, outcome) ==
  /\ c.pc = "nav"
  /\ LET w == c.w
         j == tabWorkers[w].job
         fresh == tabWorkers[w].tabId = NoTab /\ outcome # "throw"
         W == IF fresh THEN [tabWorkers EXCEPT ![w].tabId = nextTabId]
              ELSE tabWorkers
     IN /\ nextTabId' = IF fresh THEN nextTabId + 1 ELSE nextTabId
        /\ CASE outcome = "ok" ->
                  /\ tabWorkers' = W
                  /\ chains' = Moved(c, "prep")
                  /\ UNCHANGED <<jobs, skippedCount, failedCount>>
             [] outcome = "offsite" ->
                  /\ jobs' = [jobs EXCEPT ![j].status = "skipped",
                                ![j].skipReason = "redirected_external"]
                  /\ skippedCount' = skippedCount + 1
                  /\ tabWorkers' = [W EXCEPT ![w].state = "done"]
                  /\ chains' = AfterFinish(c, jobs')
                  /\ UNCHANGED failedCount
             [] outcome = "throw" ->
                  /\ jobs' = [jobs EXCEPT ![j].status = "failed"]
                  /\ failedCount' = failedCount + 1
                  /\ tabWorkers' = [W EXCEPT ![w].state = "done"]
                  /\ chains' = AfterFinish(c, jobs')
                  /\ UNCHANGED skippedCount
  /\ UNCHANGED <<appliedCount, pipeRest, regVars>>

\* ---- the personalization block of prepareAndFillJob
\* outcomes of obtaining the tailored PDFs: all three (from pdfCache, from
\* the output folder, or generated), or generation threw before the first
\* ("none"), after cvOnlyPdfData ("cvOnly") or after cvPdfData ("cv")
Artifacts == {"none", "cvOnly", "cv", "all"}

\* what the locals hold after the block: it is entered only with a backend
\* URL and a scraped description
TailoredPdfs(description, obtained) ==
  IF settings.personalization /\ settings.backendUrl /\ description
    THEN obtained ELSE "none"

\* !cvPdfData
NoCvPdfData(pdfs) == pdfs \in {"none", "cvOnly"}

\* const cvRequired = settings.personalization.enabled
cvRequired == settings.personalization

\* prepareAndFillJob: SCRAPE_JOB answered (with or without a description)
\* and the personalization block over; CLICK_APPLY is sent unless the job is
\* skipped
ChainPrep(c, description, obtained) ==
  /\ c.pc = "prep"
  /\ LET w == c.w
         j == tabWorkers[w].job
         pdfs == TailoredPdfs(description, obtained)
     IN IF cvRequired /\ NoCvPdfData(pdfs)
          THEN /\ jobs' = [jobs EXCEPT ![j].status = "skipped",
                             ![j].skipReason = "cv_generation_failed"]
               /\ skippedCount' = skippedCount + 1
               /\ tabWorkers' = Done(w)
               /\ chains' = AfterFinish(c, jobs')
          ELSE /\ chains' = Became(c, [c EXCEPT !.pc = "click",
                                                !.pdfs = pdfs])
               /\ UNCHANGED <<jobs, skippedCount, tabWorkers>>
  /\ UNCHANGED <<appliedCount, failedCount, nextTabId, pipeRest, regVars>>

\* prepareAndFillJob: CLICK_APPLY answered; after "clicked" the polling
\* loop is entered and waits delay(2000)
ChainClick(c, applyResult) ==
  /\ c.pc = "click"
  /\ LET w == c.w
         j == tabWorkers[w].job
         k == jobs[j].jobKey
         reason == IF applyResult = "external" THEN "external_apply"
                   ELSE "no_apply_button"
     IN IF applyResult \in {"external", "not_found"}
          THEN /\ jobs' = [jobs EXCEPT ![j].status = "skipped",
                             ![j].skipReason = reason]
               /\ skippedCount' = skippedCount + 1
               /\ IF MarkSkippedIsNoop(k)
                    THEN /\ tabWorkers' = Done(w)
                         /\ chains' = AfterFinish(c, jobs')
                         /\ returned' = returned \cup {k}
                         /\ UNCHANGED <<applied, skipped, storeQueue>>
                    ELSE /\ markSkipped(k, reason, w)
                         /\ chains' = Moved(c, "save")
                         /\ UNCHANGED <<tabWorkers, returned>>
          ELSE /\ chains' = Moved(c, "wizard")
               /\ UNCHANGED <<jobs, skippedCount, tabWorkers, applied,
                              skipped, storeQueue, returned>>
  /\ UNCHANGED <<appliedCount, failedCount, nextTabId, pipeRest, stored,
                 loaded, saved, reloaded>>

\* what no step of a continuation's timer or poll changes
pollRest == <<appliedCount, skippedCount, nextTabId, pipeRest, regVars>>

\* prepareAndFillJob: delay(2000) of the polling loop is over, WIZARD_READY
\* is sent
ChainWizardWait(c) ==
  /\ c.pc = "wizard"
  /\ chains' = Became(c, [c EXCEPT !.pc = "poll", !.attempt = c.attempt + 1])
  /\ UNCHANGED <<jobs, failedCount, tabWorkers, pollRest>>

\* the condition of `for (...; attempt < 15; attempt++)` after `polls` polls
\* (a loop without the bound)
PollAgainAlways(polls) == TRUE
PollAgain(polls) == polls < WIZARD_ATTEMPTS

\* prepareAndFillJob: a WIZARD_READY poll answered (ready or not; a throw
\* counts as not ready).  Ready: the payload is cached and the first fill
\* command sent; not ready: the next delay(2000), or the attempts are used
\* up
ChainWizard(c, wizardReady) ==
  /\ c.pc = "poll"
  /\ LET w == c.w
         j == tabWorkers[w].job
     IN IF wizardReady
          THEN /\ tabWorkers' = [tabWorkers EXCEPT ![w].state = "filling",
                                                   ![w].cvPayload = c.pdfs]
               /\ chains' = Became(c, [c EXCEPT !.pc = "fill", !.attempt = 0])
               /\ UNCHANGED <<jobs, failedCount>>
          ELSE IF PollAgain(c.attempt)
          THEN /\ chains' = Moved(c, "wizard")
               /\ UNCHANGED <<jobs, failedCount, tabWorkers>>
          ELSE /\ jobs' = [jobs EXCEPT ![j].status = "failed"]
               /\ failedCount' = failedCount + 1
               /\ tabWorkers' = Done(w)
               /\ chains' = AfterFinish(c, jobs')
  /\ UNCHANGED pollRest

\* sendFillCommand: FILL_AND_ADVANCE answered ("none": no or unknown reply).
\* After "continued" the call waits delay(1500) before it calls itself,
\* after "none" it waits delay(3000) before its retry
ChainFill(c, action) ==
  /\ c.pc = "fill"
  /\ CASE action \in {"filled", "needs_input"} ->
            /\ tabWorkers' = [tabWorkers EXCEPT ![c.w].state = "waiting_review"]
            /\ chains' = Without(c)
       [] action = "continued" ->
            /\ chains' = Moved(c, "refill")
            /\ UNCHANGED tabWorkers
       [] action = "none" ->
            /\ chains' = Moved(c, "retryWait")
            /\ UNCHANGED tabWorkers
  /\ UNCHANGED <<failedCount, jobs, pollRest>>

\* sendFillCommand called when delay(1500) is over (in sendFillCommand after
\* "continued", in onStepAdvanced): FILL_AND_ADVANCE is sent
ChainFillWait(c) ==
  /\ c.pc = "refill"
  /\ chains' = Moved(c, "fill")
  /\ UNCHANGED <<jobs, failedCount, tabWorkers, pollRest>>

\* sendFillCommand: delay(3000) is over, the retry is sent
ChainRetryWait(c) ==
  /\ c.pc = "retryWait"
  /\ chains' = Moved(c, "retry")
  /\ UNCHANGED <<jobs, failedCount, tabWorkers, pollRest>>

\* whether the reply to the retry makes sendFillCommand send again: both
\* branches that follow the retry set waiting_review
\* (a retry whose "continued" reply is followed like the first reply)
RetryGoesOnIfContinued(action) == action = "continued"
RetryGoesOn(action) == FALSE

\* sendFillCommand: the single retry has been answered
ChainRetry(c, action) ==
  /\ c.pc = "retry"
  /\ IF RetryGoesOn(action)
       THEN /\ chains' = Moved(c, "refill")
            /\ UNCHANGED tabWorkers
       ELSE /\ tabWorkers' = [tabWorkers EXCEPT
                                ![c.w].state = "waiting_review"]
            /\ chains' = Without(c)
  /\ UNCHANGED <<failedCount, jobs, pollRest>>

\* registry.markApplied (pc "commit", in onTabSubmitted) or markSkipped (pc
\* "save", in prepareAndFillJob) called for the worker has been persisted;
\* finishWorkerAndReuseTab follows
ChainSaved(c) ==
  /\ c.pc \in {"save", "commit"}
  /\ storeQueue # <<>>
  /\ Head(storeQueue).writer = c.w
  /\ stored' = Head(storeQueue).doc
  /\ storeQueue' = Tail(storeQueue)
  /\ returned' = returned \cup {Head(storeQueue).key}
  /\ saved' = saved \cup {Head(storeQueue).key}
  /\ tabWorkers' = Done(c.w)
  /\ chains' = AfterFinish(c, jobs)
  /\ UNCHANGED <<appliedCount, skippedCount, failedCount, jobs, nextTabId,
                 pipeRest, applied, skipped, loaded, reloaded>>

\* chrome.storage.local.set rejects for the worker's registry write.  In
\* prepareAndFillJob (pc "save") the exception reaches the catch block of
\* launchNextWorker; in onTabSubmitted (pc "commit") nothing catches it and
\* the handler ends before finishWorkerAndReuseTab.
ChainSaveFails(c) ==
  /\ c.pc \in {"save", "commit"}
  /\ storeQueue # <<>>
  /\ Head(storeQueue).writer = c.w
  /\ storeQueue' = Tail(storeQueue)
  /\ IF c.pc = "save"
       THEN /\ jobs' = [jobs EXCEPT ![tabWorkers[c.w].job].status = "failed"]
            /\ failedCount' = failedCount + 1
            /\ tabWorkers' = Done(c.w)
            /\ chains' = AfterFinish(c, jobs')
       ELSE /\ chains' = Without(c)
            /\ UNCHANGED <<jobs, failedCount, tabWorkers>>
  /\ UNCHANGED <<appliedCount, skippedCount, nextTabId, pipeRest, applied,
                 skipped, stored, loaded, returned, saved, reloaded>>

\* finishWorkerAndReuseTab: delay(1000) is over, launchNextWorker(tabId)
ChainRelaunch(c) ==
  /\ c.pc = "relaunch"
  /\ LET res == launchNextWorker(jobs, tabWorkers, Without(c),
                                 tabWorkers[c.w].tabId, c.awaiter)
     IN /\ jobs' = res.jobs
        /\ tabWorkers' = res.tabWorkers
        /\ chains' = res.chains
  /\ UNCHANGED <<appliedCount, skippedCount, failedCount, nextTabId,
                 pipeRest, regVars>>

\* ============================================================ page signals
\* tabWorkers.find((w) => w.tabId === senderTabId)   (0 = undefined)
findWorker(t) ==
  LET ws == {w \in CurWorkers(tabWorkers) : tabWorkers[w].tabId = t}
  IN IF ws = {} THEN 0 ELSE SetMin(ws)

\* tabs that currently show a wizard and can raise a signal
WizardTabs ==
  {tabWorkers[w].tabId : w \in {x \in CurWorkers(tabWorkers) :
       tabWorkers[x].state \in {"filling", "waiting_review"}}}

\* the early return of both handlers
SignalIgnored(w) == w = 0 \/ tabWorkers[w].state = "done"

\* onStepAdvanced(senderTabId), up to its delay(1500)
OnStepAdvanced(t) ==
  /\ budget.signals > 0
  /\ budget' = [budget EXCEPT !.signals = budget.signals - 1]
  /\ LET w == findWorker(t) IN
       IF SignalIgnored(w)
         THEN UNCHANGED <<tabWorkers, chains>>
         ELSE /\ tabWorkers' = [tabWorkers EXCEPT ![w].state = "filling"]
              /\ chains' = chains (+) SetToBag({Continuation(w, "refill",
                                                              0)})
  /\ UNCHANGED <<appliedCount, skippedCount, failedCount, jobs, nextTabId,
                 orchRest, regVars>>

\* onTabSubmitted(senderTabId), up to the registry write
OnTabSubmitted(t) ==
  /\ budget.signals > 0
  /\ budget' = [budget EXCEPT !.signals = budget.signals - 1]
  /\ LET w == findWorker(t) IN
       IF SignalIgnored(w)
         THEN UNCHANGED <<jobs, appliedCount, applied, skipped, storeQueue,
                          chains>>
         ELSE LET j == tabWorkers[w].job IN
              /\ jobs' = [jobs EXCEPT ![j].status = "applied"]
              /\ appliedCount' = appliedCount + 1
              /\ markApplied(jobs[j].jobKey, w)
              /\ chains' = chains (+) SetToBag({Continuation(w, "commit",
                                                              0)})
  /\ UNCHANGED <<skippedCount, failedCount, tabWorkers, nextTabId, orchRest,
                 stored, loaded, returned, saved, reloaded>>

\* ============================================================ answer cache
\* string | null
Null == "<null>"
\* options?: string[]
Undefined == [given |-> FALSE, list |-> <<>>]
Given(list) == [given |-> TRUE, list |-> list]

\* ---- the requests drawn
InputTypes == {"text", "radio"}
YesNo == Given(<<"Yes", "No">>)
OptionArgs == {Undefined, YesNo}
\* question labels with the token sets {what, phone, number},
\* {phone, number}, {upload, resume}, {phone, number},
\* {work, phone, number, extension} and {}
Labels == {"What is your phone number?", "Your phone number",
           "Upload your resume", "PHONE number: x",
           "Work phone number extension", "Do you?"}
\* long question labels: token sets of eight, seven and six words, each
\* the one before without its last word
LongLabels == {"Years experience python java sql docker linux aws",
               "Years experience python java sql docker linux",
               "Years experience python java sql docker"}
CacheAnswers == {"123", "456"}
\* closed questions, and answers near to and far from the options
Questions == {"Are you authorized to work?",
              "Do you need visa sponsorship?"}
Answers == {"Yes", "nope", "maybe", "yes please", "no, not applicable"}
BackendAnswers == Answers \cup {" No ", Null}
\* every answer an entry can come to hold
StoredAnswers == CacheAnswers \cup Answers \cup {"Yes", "No"}

\* Strings are JavaScript strings over ASCII; the accented letters of the
\* character class in tokenize are outside the inputs drawn here.
UPPER == "ABCDEFGHIJKLMNOPQRSTUVWXYZ"
LOWER == "abcdefghijklmnopqrstuvwxyz"
DIGITS == "0123456789"

CharAt(s, i) == SubSeq(s, i, i)
Rest(s) == SubSeq(s, 2, Len(s))
IndexIn(s, c) ==
  IF \E i \in 1..Len(s) : CharAt(s, i) = c
    THEN CHOOSE i \in 1..Len(s) : CharAt(s, i) = c
    ELSE 0

\* String.prototype.toLowerCase
LowerChar(c) ==
  IF IndexIn(UPPER, c) = 0 THEN c ELSE CharAt(LOWER, IndexIn(UPPER, c))
RECURSIVE toLowerCase(_)
toLowerCase(s) ==
  IF Len(s) = 0 THEN "" ELSE LowerChar(CharAt(s, 1)) \o toLowerCase(Rest(s))

\* text.split(/\s+/): the words between blanks.  A run of blanks gives empty
\* words here, which tokenize drops as it drops the empty first or last
\* element split itself can produce.
RECURSIVE split(_, _)
split(s, word) ==
  IF Len(s) = 0 THEN {word}
  ELSE IF CharAt(s, 1) = " " THEN {word} \cup split(Rest(s), "")
  ELSE split(Rest(s), word \o CharAt(s, 1))

\* word.replace(/[^a-zA-Z0-9...]/g, '')
RECURSIVE clean(_)
clean(word) ==
  IF Len(word) = 0 THEN ""
  ELSE IF IndexIn(LOWER \o UPPER \o DIGITS, CharAt(word, 1)) = 0
    THEN clean(Rest(word))
  ELSE CharAt(word, 1) \o clean(Rest(word))

STOP_WORDS ==
  {"a", "an", "the", "is", "are", "was", "were", "be", "been", "being",
   "have", "has", "had", "do", "does", "did", "will", "would", "could",
   "should", "may", "might", "shall", "can", "to", "of", "in", "for", "on",
   "with", "at", "by", "from", "as", "into", "about", "between", "through",
   "after", "before", "above", "below", "and", "or", "but", "not", "no",
   "if", "then", "than", "that", "this", "these", "those", "it", "its",
   "you", "your", "we", "our", "um", "uma", "o", "os", "de", "da", "dos",
   "das", "em", "na", "nos", "nas", "por", "para", "com", "sem", "e", "ou",
   "mas", "se"}

\* tokenize(text)
tokenize(text) ==
  {t \in {clean(w) : w \in split(toLowerCase(text), "")} :
     Len(t) > 1 /\ t \notin STOP_WORDS}

\* tokenize over the labels drawn, computed once
Tokenized == [l \in Labels \cup Questions \cup LongLabels |-> tokenize(l)]

\* A score is the fraction n / d of two integers.
Zero == [n |-> 0, d |-> 1]
Greater(x, y) == x.n * y.d > y.n * x.d
Less(x, y) == Greater(y, x)

\* similarity(a, b): Jaccard score of two token sets
similarity(a, b) ==
  IF a = {} \/ b = {} THEN Zero
  ELSE [n |-> Cardinality(a \cap b),
        d |-> Cardinality(a) + Cardinality(b) - Cardinality(a \cap b)]

Min3(a, b, c) == Min2(a, Min2(b, c))

\* One row dp[i][0..n] of the Levenshtein table from the row above it
\* (rows are sequences, column j at index j + 1).
RECURSIVE dpRow(_, _, _, _, _)
dpRow(prev, row, ch, b, j) ==
  IF j > Len(b) THEN row
  ELSE LET cost == IF ch = CharAt(b, j) THEN 0 ELSE 1
           cell == Min3(prev[j + 1] + 1, row[j] + 1, prev[j] + cost)
       IN dpRow(prev, Append(row, cell), ch, b, j + 1)

RECURSIVE dpRows(_, _, _, _)
dpRows(prev, a, b, i) ==
  IF i > Len(a) THEN prev
  ELSE LET row == dpRow(prev, <<i>>, CharAt(a, i), b, 1)
       IN IF Len(row) = Len(prev) THEN dpRows(row, a, b, i + 1) ELSE <<>>

\* dp[m][n]
levenshtein(a, b) ==
  dpRows([j \in 1..(Len(b) + 1) |-> j - 1], a, b, 1)[Len(b) + 1]

Max2(a, b) == IF a > b THEN a ELSE b

\* editDistanceRatio(a, b) = 1 - dp[m][n] / max(m, n)
editDistanceRatio(a, b) ==
  IF Len(a) = 0 /\ Len(b) = 0 THEN [n |-> 1, d |-> 1]
  ELSE IF Len(a) = 0 \/ Len(b) = 0 THEN Zero
  ELSE [n |-> Max2(Len(a), Len(b)) - levenshtein(a, b),
        d |-> Max2(Len(a), Len(b))]

\* bestScore > 0.3, computed in IEEE-754 doubles: the literal 0.3 is the
\* double 0.299999999999999989 and 1 - 7/10 evaluates to
\* 0.30000000000000004, so a ratio of exactly 3/10 passes the test; every
\* other ratio compares as the fractions do.
Accepted(score) == 10 * score.n >= 3 * score.d

\* the loop of bestOptionMatch from option i on
RECURSIVE bestOption(_, _, _, _, _)
bestOption(aLower, options, i, bestScore, best) ==
  IF i > Len(options) THEN [score |-> bestScore, option |-> best]
  ELSE LET score == editDistanceRatio(aLower, toLowerCase(options[i]))
       IN IF Greater(score, bestScore)
            THEN bestOption(aLower, options, i + 1, score, options[i])
            ELSE bestOption(aLower, options, i + 1, bestScore, best)

\* bestOptionMatch(answer, options)
bestOptionMatch(answer, options) ==
  IF Len(options) = 0 THEN Null
  ELSE LET b == bestOption(toLowerCase(answer), options, 1, Zero, options[1])
       IN IF Accepted(b.score) THEN b.option ELSE Null

\* bestOptionMatch over the answers and option lists drawn, computed once
OptionMatch ==
  [a \in StoredAnswers, o \in {x.list : x \in OptionArgs}
     |-> bestOptionMatch(a, o)]

\* ---- AnswerCache
\* similarity(...) > 0.85 in store, and the default threshold of lookup
UPDATE_THRESHOLD == [n |-> 17, d |-> 20]
DEFAULT_THRESHOLD == [n |-> 1, d |-> 2]

\* load(): the entries the call works on
LoadedEntries == IF cacheLoaded THEN entries ELSE cacheStored

\* (an entry keeping the words of the label as its tokens)
NewEntryRaw(label, inputType, answer, options) ==
  [label |-> label, tokens |-> split(label, "") \ {""},
   inputType |-> inputType, answer |-> answer, options |-> options.list]
\* the entry store pushes; `tokens` is kept as the set the array is only
\* ever converted back to, and `options || []` is options.list
NewEntry(label, inputType, answer, options) ==
  [label |-> label, tokens |-> Tokenized[label], inputType |-> inputType,
   answer |-> answer, options |-> options.list]

\* the first entry the loop of store updates (0: none)
NearDuplicate(E, tokens, inputType) ==
  LET hits == {i \in 1..Len(E) :
                 /\ E[i].inputType = inputType
                 /\ Greater(similarity(tokens, E[i].tokens),
                            UPDATE_THRESHOLD)}
  IN IF hits = {} THEN 0 ELSE SetMin(hits)

\* the entries after store(label, inputType, answer, options) on entries E
store(E, label, inputType, answer, options) ==
  LET tokens == Tokenized[label]
      i == NearDuplicate(E, tokens, inputType)
  IN IF tokens = {} THEN E
     ELSE IF i # 0
       THEN [E EXCEPT ![i].answer = answer,
                      ![i].options = IF options.given THEN options.list
                                     ELSE @]
     ELSE Append(E, NewEntry(label, inputType, answer, options))

\* the loop of lookup from entry i on (best = 0: bestEntry is null)
RECURSIVE bestEntry(_, _, _, _, _, _)
bestEntry(E, queryTokens, inputType, i, bestScore, best) ==
  IF i > Len(E) THEN [score |-> bestScore, entry |-> best]
  ELSE IF E[i].inputType # inputType
    THEN bestEntry(E, queryTokens, inputType, i + 1, bestScore, best)
  ELSE LET score == similarity(queryTokens, E[i].tokens)
       IN IF Greater(score, bestScore)
            THEN bestEntry(E, queryTokens, inputType, i + 1, score, i)
            ELSE bestEntry(E, queryTokens, inputType, i + 1, bestScore,
                           best)

\* !bestEntry || bestScore < threshold
Missed(b) == b.entry = 0 \/ Less(b.score, DEFAULT_THRESHOLD)

\* lookup(label, inputType, options) on entries E
lookup(E, label, inputType, options) ==
  LET queryTokens == Tokenized[label]
      b == bestEntry(E, queryTokens, inputType, 1, Zero, 0)
  IN IF queryTokens = {} THEN Null
     ELSE IF Missed(b) THEN Null
     ELSE IF options.given /\ inputType \in {"select", "radio"}
       THEN OptionMatch[E[b.entry].answer, options.list]
     ELSE E[b.entry].answer

\* ---- askClaudeForAnswer, from the response of the backend on
\* String.prototype.trim
RECURSIVE trimStart(_)
trimStart(s) ==
  IF Len(s) > 0 /\ CharAt(s, 1) = " " THEN trimStart(Rest(s)) ELSE s
RECURSIVE trimEnd(_)
trimEnd(s) ==
  IF Len(s) > 0 /\ CharAt(s, Len(s)) = " "
    THEN trimEnd(SubSeq(s, 1, Len(s) - 1)) ELSE s
trim(s) == trimEnd(trimStart(s))

\* String.prototype.includes
includes(s, sub) ==
  \E i \in 1..(Len(s) + 1) :
    i + Len(sub) - 1 <= Len(s) /\ SubSeq(s, i, i + Len(sub) - 1) = sub

\* the first option equal to, containing or contained in the answer (0: none)
MatchingOption(lower, options) ==
  LET hits == {i \in 1..Len(options) :
                 \/ toLowerCase(options[i]) = lower
                 \/ includes(toLowerCase(options[i]), lower)
                 \/ includes(lower, toLowerCase(options[i]))}
  IN IF hits = {} THEN 0 ELSE SetMin(hits)

\* `backend` is data.answer, or Null for a missing backendUrl, a response
\* that is not ok, a missing answer or an exception
askClaudeForAnswer(backend, options) ==
  IF backend = Null \/ trim(backend) = "" THEN Null
  ELSE IF options.given /\ Len(options.list) > 0
    THEN LET i == MatchingOption(toLowerCase(trim(backend)), options.list)
         IN IF i # 0 THEN options.list[i] ELSE options.list[1]
  ELSE trim(backend)

\* askClaudeForAnswer over the backend answers drawn, computed once
ServiceAnswer ==
  [backend \in BackendAnswers, o \in OptionArgs
     |-> askClaudeForAnswer(backend, o)]

\* ---- the ASK_CLAUDE handler of the service worker
cacheRest == <<state, stopRequested, settings, appliedCount, skippedCount,
               failedCount, jobs, jobsGen, tabWorkers, listGen,
               collectionTabId, nextTabId, estimatedTotalJobs, totalPages,
               userSettings, runs, chains, site, log, budget, regVars>>

\* payload.storeCache: cache.store(label, inputType, answer, options)
CacheStore(label, inputType, answer, options) ==
  /\ LET E == store(LoadedEntries, label, inputType, answer, options) IN
       /\ Len(E) <= MaxEntries
       /\ entries' = E
       /\ cacheStored' = IF Tokenized[label] = {} THEN cacheStored ELSE E
  /\ cacheLoaded' = TRUE
  /\ reply' = [op |-> "store", label |-> label, answer |-> Null]
  /\ UNCHANGED <<cacheRest, cacheQueue, stores>>

\* payload.cacheOnly: cache.lookup(label, inputType, options)
CacheLookup(label, inputType, options) ==
  /\ entries' = LoadedEntries
  /\ cacheLoaded' = TRUE
  /\ reply' = [op |-> "lookup", label |-> label,
               answer |-> lookup(LoadedEntries, label, inputType, options)]
  /\ UNCHANGED <<cacheStored, cacheRest, cacheQueue, stores>>

\* payload.question: the cache first (unless errorContext), then the
\* answer-generation service, whose answer is stored
AskClaude(question, options, errorContext, backend) ==
  LET cached == IF errorContext THEN Null
                ELSE lookup(LoadedEntries, question, "text", options)
      claudeAnswer == ServiceAnswer[backend, options]
  IN IF cached # Null
       THEN /\ entries' = LoadedEntries
            /\ cacheLoaded' = TRUE
            /\ reply' = [op |-> "ask", label |-> question, answer |-> cached]
            /\ UNCHANGED <<cacheStored, cacheRest, cacheQueue, stores>>
     ELSE IF claudeAnswer # Null
       THEN /\ LET E == store(LoadedEntries, question, "text", claudeAnswer,
                              options) IN
                 /\ Len(E) <= MaxEntries
                 /\ entries' = E
                 /\ cacheStored' = IF Tokenized[question] = {}
                                     THEN cacheStored ELSE E
            /\ cacheLoaded' = TRUE
            /\ reply' = [op |-> "ask", label |-> question,
                         answer |-> claudeAnswer]
            /\ UNCHANGED <<cacheRest, cacheQueue, stores>>
     ELSE /\ entries' = IF errorContext THEN entries ELSE LoadedEntries
          /\ cacheLoaded' = (cacheLoaded \/ ~errorContext)
          /\ reply' = [op |-> "ask", label |-> question, answer |-> Null]
          /\ UNCHANGED <<cacheStored, cacheRest, cacheQueue, stores>>

\* ---- AnswerCache.store step by step, for calls that overlap.  A step runs
\* from the call, or from the completion of the call's chrome.storage
\* request, up to its next chrome.storage request.  chrome.storage serves
\* the requests in the order they were made; get answers with a fresh copy
\* of the persisted array, set is handed this.entries as they are when
\* save() is called.
StoreCall(label, inputType, answer, options) ==
  [kind |-> "get", label |-> label, inputType |-> inputType,
   answer |-> answer, options |-> options, doc |-> <<>>]

\* store after `await this.load()`, up to `await this.save()`, with
\* this.entries = E, the requests Q in flight and the calls `done` returned
StoreBody(call, E, Q, done) ==
  IF Tokenized[call.label] = {}
    THEN /\ entries' = E
         /\ cacheQueue' = Q
         /\ stores' = Append(done, call)
    ELSE LET E1 == store(E, call.label, call.inputType, call.answer,
                         call.options)
         IN /\ entries' = E1
            /\ cacheQueue' = Append(Q, [call EXCEPT !.kind = "set",
                                                    !.doc = E1])
            /\ stores' = done

\* store(label, inputType, answer, options) is called: load() returns at
\* once when the cache is loaded, and asks the store otherwise
StoreCalled(label, inputType, answer, options) ==
  /\ Len(cacheQueue) + Len(stores) < MaxStoreCalls
  /\ LET call == StoreCall(label, inputType, answer, options) IN
       IF cacheLoaded
         THEN StoreBody(call, entries, cacheQueue, stores)
         ELSE /\ cacheQueue' = Append(cacheQueue, call)
              /\ UNCHANGED <<entries, stores>>
  /\ UNCHANGED <<cacheLoaded, cacheStored, reply, cacheRest>>

\* the oldest chrome.storage request of the cache completes.  get: load()
\* assigns this.entries and this.loaded, and store goes on; set: save() and
\* with it store() return
CacheStorageDone ==
  /\ cacheQueue # <<>>
  /\ LET req == Head(cacheQueue) IN
       IF req.kind = "get"
         THEN /\ cacheLoaded' = TRUE
              /\ StoreBody(req, cacheStored, Tail(cacheQueue), stores)
              /\ UNCHANGED cacheStored
         ELSE /\ cacheStored' = req.doc
              /\ cacheQueue' = Tail(cacheQueue)
              /\ stores' = Append(stores, req)
              /\ UNCHANGED <<entries, cacheLoaded>>
  /\ UNCHANGED <<reply, cacheRest>>

\* ========================================================== initial states
\* a page driver free to answer anything within the bounds
FreeSite == [free |-> TRUE, queries |-> <<>>, est |-> 0]

EmptyMap == [x \in {} |-> ""]

\* registry documents a previous process may have left in the store
RegistryDocs ==
  {RegistryData(a, [x \in d |-> "external_apply"]) :
     <<a, d>> \in {p \in (SUBSET Keys) \X (SUBSET Keys) :
                     p[1] \cap p[2] = {}}}

\* no answer-cache request made yet
NoReply == [op |-> "none", label |-> "", answer |-> "<null>"]

\* state right after the service worker has been loaded
Constructed ==
  /\ state = "idle" /\ stopRequested = FALSE /\ settings = NullSettings
  /\ appliedCount = 0 /\ skippedCount = 0 /\ failedCount = 0
  /\ jobs = <<>> /\ jobsGen = 1
  /\ tabWorkers = <<>> /\ listGen = 1
  /\ collectionTabId = NoTab /\ nextTabId = 1
  /\ estimatedTotalJobs = 0 /\ totalPages = 0
  /\ applied = {} /\ skipped = EmptyMap /\ loaded = FALSE
  /\ storeQueue = <<>>
  /\ runs = <<>> /\ chains = EmptyBag /\ log = <<>>
  /\ returned = {} /\ saved = {} /\ reloaded = FALSE
  /\ entries = <<>> /\ cacheLoaded = FALSE /\ reply = NoReply
  /\ cacheQueue = <<>> /\ stores = <<>>

\* ---- the whole orchestrator on a few listings
\* two queries of two pages each (the count says so): links 1, 2 on the
\* pages of the first, link 1 on the first page of the second
PoolSite == [free |-> FALSE,
             queries |-> << << <<1>>, <<2>> >>, << <<1>> >> >>,
             est |-> 2 * JOBS_PER_PAGE]

Init ==
  /\ Constructed
  /\ cacheStored = <<>>
  /\ site = PoolSite
  /\ stored = RegistryData({}, EmptyMap)
  /\ userSettings \in [searchUrls : {Len(site.queries)},
                       concurrentTabs : 1..MaxTabs,
                       maxApplies : {0},
                       personalization : {FALSE},
                       backendUrl : {TRUE}]
  /\ budget = [starts |-> MaxRuns, signals |-> MaxSignals]

NavOutcomes == {"ok", "offsite", "throw"}
ApplyResults == {"clicked", "external", "not_found"}
FillActions == {"filled", "needs_input", "continued", "none"}

\* runs and worker continuations that exist
Runs == 1..Len(runs)
Chains == BagToSet(chains)

Next ==
  \/ Start
  \/ Stop
  \/ Pause
  \/ Resume
  \/ \E r \in Runs : RunLoaded(r)
  \/ \E r \in Runs : RunLoadFails(r)
  \/ \E r \in Runs :
       \E links \in PageChoices(runs[r].searchIdx, 1),
          jobCount \in EstChoices, cards \in CardChoices :
         RunFirstPage(r, links, jobCount, cards)
  \/ \E r \in Runs :
       \E pages \in BatchChoices(runs[r].searchIdx, runs[r].nextPage,
                                  runs[r].batch),
          order \in Orders(runs[r].batch), jobCount \in EstChoices :
         RunBatch(r, pages, order, jobCount)
  \/ \E r \in Runs : RunDelay(r)
  \/ \E r \in Runs : RunLaunchWait(r)
  \/ \E r \in Runs : RunPollWait(r)
  \/ \E c \in Chains, o \in NavOutcomes : ChainNav(c, o)
  \/ \E c \in Chains, d \in BOOLEAN, a \in Artifacts : ChainPrep(c, d, a)
  \/ \E c \in Chains, a \in ApplyResults : ChainClick(c, a)
  \/ \E c \in Chains : ChainWizardWait(c)
  \/ \E c \in Chains, ready \in BOOLEAN : ChainWizard(c, ready)
  \/ \E c \in Chains, a \in FillActions : ChainFill(c, a)
  \/ \E c \in Chains : ChainFillWait(c)
  \/ \E c \in Chains : ChainRetryWait(c)
  \/ \E c \in Chains, a \in FillActions : ChainRetry(c, a)
  \/ \E c \in Chains : ChainSaved(c)
  \/ \E c \in Chains : ChainSaveFails(c)
  \/ \E c \in Chains : ChainRelaunch(c)
  \/ \E t \in WizardTabs : OnStepAdvanced(t)
  \/ \E t \in WizardTabs : OnTabSubmitted(t)

Spec == Init /\ [][Next]_vars

\* ---- the control surface: repeated start() calls, on a listing of one
\* query of two pages with one link on the first
ControlSite == [free |-> FALSE, queries |-> << << <<1>>, <<>> >> >>,
                est |-> 2 * JOBS_PER_PAGE]

InitControl ==
  /\ Constructed
  /\ cacheStored = <<>>
  /\ site = ControlSite
  /\ stored = RegistryData({}, EmptyMap)
  /\ userSettings = [searchUrls |-> Len(site.queries), concurrentTabs |-> 1,
                     maxApplies |-> 0, personalization |-> FALSE,
                     backendUrl |-> TRUE]
  /\ budget = [starts |-> MaxStartCalls, signals |-> ControlSignals]

SpecControl == InitControl /\ [][Next]_vars

\* ---- personalization switched on, with and without a backend URL: one
\* tab working through the listing of PoolSite
InitTailor ==
  /\ Constructed
  /\ cacheStored = <<>>
  /\ site = PoolSite
  /\ stored = RegistryData({}, EmptyMap)
  /\ userSettings \in [searchUrls : {Len(site.queries)},
                       concurrentTabs : {1},
                       maxApplies : {0},
                       personalization : {TRUE},
                       backendUrl : BOOLEAN]
  /\ budget = [starts |-> MaxRuns, signals |-> TailorSignals]

SpecTailor == InitTailor /\ [][Next]_vars

\* ---- applications left to themselves (no stop, pause or page signal), one
\* tab working through the listing of PoolSite: the event loop resumes every continuation
\* whose timer has fired or whose round trip is over (sendToTab reports no
\* response after its last delivery), so each keeps taking steps; what the
\* page driver answers is not constrained
NextFill ==
  \/ Start
  \/ \E r \in Runs : RunLoaded(r)
  \/ \E r \in Runs :
       \E links \in PageChoices(runs[r].searchIdx, 1),
          jobCount \in EstChoices, cards \in CardChoices :
         RunFirstPage(r, links, jobCount, cards)
  \/ \E r \in Runs :
       \E pages \in BatchChoices(runs[r].searchIdx, runs[r].nextPage,
                                  runs[r].batch),
          order \in Orders(runs[r].batch), jobCount \in EstChoices :
         RunBatch(r, pages, order, jobCount)
  \/ \E r \in Runs : RunDelay(r)
  \/ \E r \in Runs : RunLaunchWait(r)
  \/ \E r \in Runs : RunPollWait(r)
  \/ \E c \in Chains, o \in NavOutcomes : ChainNav(c, o)
  \/ \E c \in Chains, d \in BOOLEAN, a \in Artifacts : ChainPrep(c, d, a)
  \/ \E c \in Chains, a \in ApplyResults : ChainClick(c, a)
  \/ \E c \in Chains : ChainWizardWait(c)
  \/ \E c \in Chains, ready \in BOOLEAN : ChainWizard(c, ready)
  \/ \E c \in Chains, a \in FillActions : ChainFill(c, a)
  \/ \E c \in Chains : ChainFillWait(c)
  \/ \E c \in Chains : ChainRetryWait(c)
  \/ \E c \in Chains, a \in FillActions : ChainRetry(c, a)
  \/ \E c \in Chains : ChainSaved(c)
  \/ \E c \in Chains : ChainRelaunch(c)

InitFill ==
  /\ Constructed
  /\ cacheStored = <<>>
  /\ site = PoolSite
  /\ stored = RegistryData({}, EmptyMap)
  /\ userSettings = [searchUrls |-> Len(site.queries), concurrentTabs |-> 1,
                     maxApplies |-> 0, personalization |-> FALSE,
                     backendUrl |-> TRUE]
  /\ budget = [starts |-> MaxRuns, signals |-> 0]

\* a continuation that can run does run: the steps of NextFill other than
\* the start() call
Resumed == NextFill /\ budget' = budget

SpecFill == InitFill /\ [][NextFill]_vars /\ WF_vars(Resumed)

\* ---- the apply limit: a run left to itself (no stop, pause or failing
\* storage call), with every limit up to MaxLimit and the page signals in
\* every order, on three queries of two pages each (the count says so):
\* link 1 on the first page of the first, link 2 on the first page of the
\* second, link 1 again on the first page of the third
LimitSite == [free |-> FALSE,
              queries |-> << << <<1>>, <<>> >>, << <<2>> >>, << <<1>> >> >>,
              est |-> 2 * JOBS_PER_PAGE]

InitLimit ==
  /\ Constructed
  /\ cacheStored = <<>>
  /\ site = LimitSite
  /\ stored = RegistryData({}, EmptyMap)
  /\ userSettings \in [searchUrls : {Len(site.queries)},
                       concurrentTabs : 1..MaxTabs,
                       maxApplies : 1..MaxLimit,
                       personalization : {FALSE},
                       backendUrl : {TRUE}]
  /\ budget = [starts |-> MaxRuns, signals |-> LimitSignals]

NextLimit ==
  \/ Start
  \/ \E r \in Runs : RunLoaded(r)
  \/ \E r \in Runs :
       \E links \in PageChoices(runs[r].searchIdx, 1),
          jobCount \in EstChoices, cards \in CardChoices :
         RunFirstPage(r, links, jobCount, cards)
  \/ \E r \in Runs :
       \E pages \in BatchChoices(runs[r].searchIdx, runs[r].nextPage,
                                  runs[r].batch),
          order \in Orders(runs[r].batch), jobCount \in EstChoices :
         RunBatch(r, pages, order, jobCount)
  \/ \E r \in Runs : RunDelay(r)
  \/ \E r \in Runs : RunLaunchWait(r)
  \/ \E r \in Runs : RunPollWait(r)
  \/ \E c \in Chains, o \in NavOutcomes : ChainNav(c, o)
  \/ \E c \in Chains, d \in BOOLEAN, a \in Artifacts : ChainPrep(c, d, a)
  \/ \E c \in Chains, a \in ApplyResults : ChainClick(c, a)
  \/ \E c \in Chains : ChainWizardWait(c)
  \/ \E c \in Chains, ready \in BOOLEAN : ChainWizard(c, ready)
  \/ \E c \in Chains, a \in FillActions : ChainFill(c, a)
  \/ \E c \in Chains : ChainFillWait(c)
  \/ \E c \in Chains : ChainRetryWait(c)
  \/ \E c \in Chains, a \in FillActions : ChainRetry(c, a)
  \/ \E c \in Chains : ChainSaved(c)
  \/ \E c \in Chains : ChainRelaunch(c)
  \/ \E t \in WizardTabs : OnStepAdvanced(t)
  \/ \E t \in WizardTabs : OnTabSubmitted(t)

SpecLimit == InitLimit /\ [][NextLimit]_vars

\* ---- the end of the applying phase: the run of SpecLimit with one tab.
\* The event loop resumes every
\* continuation whose timer has fired or whose round trip is over: the steps
\* other than the start() call and the page signals are taken when they can
\* be.
InitDrain ==
  /\ Constructed
  /\ cacheStored = <<>>
  /\ site = LimitSite
  /\ stored = RegistryData({}, EmptyMap)
  /\ userSettings \in [searchUrls : {Len(site.queries)},
                       concurrentTabs : {1},
                       maxApplies : 1..MaxLimit,
                       personalization : {FALSE},
                       backendUrl : {TRUE}]
  /\ budget = [starts |-> MaxRuns, signals |-> DrainSignals]

Continued == NextLimit /\ budget' = budget

SpecDrain == InitDrain /\ [][NextLimit]_vars /\ WF_vars(Continued)

\* ---- discovery alone, over every listing within the bounds
InitDiscovery ==
  /\ Constructed
  /\ cacheStored = <<>>
  /\ site = FreeSite
  /\ stored \in RegistryDocs
  /\ userSettings \in [searchUrls : 1..MaxQueries,
                       concurrentTabs : 1..MaxTabs,
                       maxApplies : {0, 1},
                       personalization : {FALSE},
                       backendUrl : {TRUE}]
  /\ budget = [starts |-> MaxRuns, signals |-> 0]

NextDiscovery ==
  \/ Start
  \/ \E r \in Runs : RunLoaded(r)
  \/ \E r \in Runs :
       \E links \in PageChoices(runs[r].searchIdx, 1),
          jobCount \in EstChoices, cards \in CardChoices :
         RunFirstPage(r, links, jobCount, cards)
  \/ \E r \in Runs :
       \E pages \in BatchChoices(runs[r].searchIdx, runs[r].nextPage,
                                  runs[r].batch),
          errors \in SUBSET (1..runs[r].batch),
          order \in Orders(runs[r].batch), jobCount \in EstChoices :
         RunRound(r, pages, errors, order, jobCount)
  \/ \E r \in Runs : RunDelay(r)

SpecDiscovery == InitDiscovery /\ [][NextDiscovery]_vars

\* ---- parallel rounds: one query over every listing of ParallelPages
\* pages, no total count, one or two scraping tabs
Listings == [1..ParallelPages -> PageSet]

InitParallel ==
  /\ Constructed
  /\ cacheStored = <<>>
  /\ site \in {[free |-> FALSE, queries |-> <<l>>, est |-> 0] :
                l \in Listings}
  /\ stored = RegistryData({}, EmptyMap)
  /\ userSettings \in [searchUrls : {1},
                       concurrentTabs : 1..MaxTabs,
                       maxApplies : {0},
                       personalization : {FALSE},
                       backendUrl : {TRUE}]
  /\ budget = [starts |-> MaxRuns, signals |-> 0]

SpecParallel == InitParallel /\ [][NextDiscovery]_vars

\* ---- the registry alone, called directly
InitRegistry ==
  /\ Constructed
  /\ cacheStored = <<>>
  /\ site = FreeSite
  /\ stored \in RegistryDocs
  /\ userSettings = NullSettings
  /\ budget = [starts |-> 0, signals |-> 0]

NextRegistry ==
  \/ \E k \in Keys : RegMarkApplied(k)
  \/ \E k \in Keys, r \in Reasons : RegMarkSkipped(k, r)
  \/ StorageSetDone
  \/ RegistryReload

SpecRegistry == InitRegistry /\ [][NextRegistry]_vars

\* ---- the answer cache alone: question labels and their token sets
\* cache documents an earlier process may have left in the store
CacheDocs == {<<>>, <<NewEntry("Your phone number", "text", "123", Undefined)>>}

InitCache ==
  /\ Constructed
  /\ site = FreeSite
  /\ stored = RegistryData({}, EmptyMap)
  /\ userSettings = NullSettings
  /\ budget = [starts |-> 0, signals |-> 0]
  /\ cacheStored \in CacheDocs

NextCache ==
  \/ \E l \in Labels, t \in InputTypes, a \in CacheAnswers,
        o \in OptionArgs : CacheStore(l, t, a, o)
  \/ \E l \in Labels, t \in InputTypes, o \in OptionArgs :
       CacheLookup(l, t, o)

SpecCache == InitCache /\ [][NextCache]_vars

\* ---- the answer cache over long labels, whose token sets can score
\* between the update threshold and 1 against each other
InitLong ==
  /\ Constructed
  /\ site = FreeSite
  /\ stored = RegistryData({}, EmptyMap)
  /\ userSettings = NullSettings
  /\ budget = [starts |-> 0, signals |-> 0]
  /\ cacheStored = <<>>

NextLong ==
  \/ \E l \in LongLabels, t \in InputTypes, a \in CacheAnswers :
       CacheStore(l, t, a, Undefined)
  \/ \E l \in LongLabels, t \in InputTypes :
       CacheLookup(l, t, Undefined)

SpecLong == InitLong /\ [][NextLong]_vars

\* ---- store() calls that may overlap, on a cache not yet loaded
NextStores ==
  \/ \E l \in Labels, t \in InputTypes, a \in CacheAnswers,
        o \in OptionArgs : StoreCalled(l, t, a, o)
  \/ CacheStorageDone

SpecStores == InitCache /\ [][NextStores]_vars

\* ---- option resolution: closed questions, answers near and far from the
\* options, through the cache and through the answer-generation service
InitResolve ==
  /\ Constructed
  /\ site = FreeSite
  /\ stored = RegistryData({}, EmptyMap)
  /\ userSettings = NullSettings
  /\ budget = [starts |-> 0, signals |-> 0]
  /\ cacheStored = <<>>

NextResolve ==
  \/ \E l \in Questions, t \in InputTypes, a \in Answers, o \in OptionArgs :
       CacheStore(l, t, a, o)
  \/ \E l \in Questions, t \in InputTypes, o \in OptionArgs :
       CacheLookup(l, t, o)
  \/ \E l \in Questions, o \in OptionArgs, errorContext \in BOOLEAN,
        backend \in BackendAnswers :
       AskClaude(l, o, errorContext, backend)

SpecResolve == InitResolve /\ [][NextResolve]_vars

\* ================================================================ properties
JobKeyOf(w) == jobs[tabWorkers[w].job].jobKey
Workers == 1..Len(tabWorkers)

\* ---- C1: during the applying phase the number of workers in a non-done
\* phase never exceeds the configured concurrency limit.  Counted here are
\* only the non-done workers whose job is still in progress, so that a late
\* fill reply putting a finished worker back to waiting_review is not what
\* breaks the bound.
Busy(w) ==
  /\ tabWorkers[w].state # "done"
  /\ jobs[tabWorkers[w].job].status = "skipped"
  /\ jobs[tabWorkers[w].job].skipReason = "in_progress"

BoundedConcurrency ==
  state = "applying" =>
    Cardinality({w \in CurWorkers(tabWorkers) : Busy(w)}) <= concurrentTabs

\* ---- C2: a pending job is claimed before the first suspension point of
\* launchNextWorker, so over a whole run no JobEntry is assigned to two
\* TabWorkers, whoever launched them (initial batch, pool poll, finish
\* callback).
OneWorkerPerJobEntry ==
  \A v, w \in Workers : v # w => tabWorkers[v].job # tabWorkers[w].job

\* every job of the listing has been given to a worker, the later ones by
\* the pool poll or a finish callback
AllJobsAssigned ==
  /\ Len(tabWorkers) = Len(jobs)
  /\ Len(jobs) > concurrentTabs

\* ---- C3: within one run at most one worker is ever launched on a jobKey,
\* also when two search queries return the same jobKey.
OneWorkerPerJobKey ==
  \A v, w \in Workers : v # w => JobKeyOf(v) # JobKeyOf(w)

\* ---- C4: a stop request leaves the state idle, and from then on no job
\* leaves the pending status, whatever was suspended when stop was called.
StopEndsClaims ==
  [][ /\ (stopRequested' /\ ~stopRequested => state' = "idle")
      /\ (stopRequested =>
            \A j \in 1..Len(jobs) :
              jobs[j].status = "pending" => jobs'[j].status = "pending") ]_vars

\* stopped with pending jobs while a finish callback waits out its delay
\* and a run's loop waits on its timer
StoppedWithSuspendedLaunchers ==
  /\ stopRequested /\ state = "idle"
  /\ hasPending(jobs)
  /\ \E c \in Chains : c.pc = "relaunch"
  /\ \E r \in Runs : runs[r].pc \in {"launchWait", "pollWait"}

\* ---- C5: no jobKey is both applied and skipped, in memory and in every
\* document written: markApplied removes the skip entry, markSkipped leaves
\* an applied key alone.
Exclusive(a, s) == a \cap DOMAIN s = {}

MutualExclusion ==
  /\ Exclusive(applied, skipped)
  /\ Exclusive(SeqToSet(stored.applied), stored.skipped)
  /\ \A i \in 1..Len(storeQueue) :
       Exclusive(SeqToSet(storeQueue[i].doc.applied),
                 storeQueue[i].doc.skipped)

\* a key marked applied whose earlier skip entry is still in the store
AppliedSupersedesSkipped ==
  \E k \in applied : k \in DOMAIN stored.skipped /\ k \notin DOMAIN skipped

\* ---- C6: once markApplied or markSkipped has completed for a key, isKnown
\* is true for it after any later registry operations, the persisted
\* document holds it, and so does a registry freshly loaded from the store.
KnownForGood ==
  /\ \A k \in returned : isKnown(k)
  /\ \A k \in saved :
       k \in SeqToSet(stored.applied) \cup DOMAIN stored.skipped

\* a registry loaded from the store knows a key a completed call had added
KnownAfterReload ==
  /\ reloaded
  /\ \E k \in saved : isKnown(k)

\* ---- C7: every JobEntry pushed to the queue has a jobKey the registry did
\* not know when it was pushed, on page 1 and on every later page.
EnqueuedKeysAreUnknown ==
  [][ \A i \in (Len(jobs) + 1)..Len(jobs') : ~isKnown(jobs'[i].jobKey) ]_vars

\* a query whose pages showed a known key and a key that was enqueued
KnownKeyDropped ==
  \E r \in Runs :
    /\ \E k \in runs[r].seen : isKnown(k)
    /\ \E j \in CurJobs(jobs) : jobs[j].jobKey \in runs[r].seen

\* ---- C8: within one run the queue never holds two entries with the same
\* jobKey, over the pages of one query and over the queries.
NoDuplicateKeysInQueue ==
  \A i, j \in CurJobs(jobs) : i # j => jobs[i].jobKey # jobs[j].jobKey

\* ---- C9: on pages with links followed only by empty pages (no total
\* count, no apply limit), a query requests exactly three empty pages, for
\* every number of scraping tabs.
StopsAfterThreeEmptyPages ==
  \A i \in 1..Len(log) :
    (log[i].conforming /\ log[i].est = 0 /\ settings.maxApplies = 0)
      => log[i].pages = log[i].nonEmptyPages + EMPTY_STREAK_LIMIT

\* ---- C10: when a startBot call that left idle settles, the state is idle.
SettlesIdle ==
  [][ \A r \in Runs :
        (runs[r].pc # "settled" /\ runs'[r].pc = "settled")
          => state' = "idle" ]_vars

\* ---- C11: a start() call in a non-idle state leaves the state, the
\* counters, the job queue, the worker list, the settings and the
\* cancellation flag as they are.
StartCalled == budget'.starts < budget.starts

StartOnlyFromIdle ==
  [][ (StartCalled /\ state # "idle") =>
        UNCHANGED <<state, appliedCount, skippedCount, failedCount, jobs,
                    jobsGen, tabWorkers, listGen, settings, stopRequested>>
    ]_vars

\* both calls made, one run accepted: the other call came in a non-idle
\* state, here with a job claimed and the run paused
StartIgnoredWhilePaused ==
  /\ budget.starts = 0
  /\ Len(runs) = 1
  /\ state = "paused"
  /\ Len(tabWorkers) > 0

\* ---- C12: while the orchestrator stays paused no JobEntry leaves the
\* pending status; steps of jobs already claimed may go on.
NoClaimWhilePaused ==
  [][ (state = "paused" /\ state' = "paused") =>
        \A j \in CurJobs(jobs) :
          jobs[j].status = "pending" => jobs'[j].status = "pending"
    ]_vars

\* ---- C13: a completion signal for tab t, arriving while a worker in a
\* non-done phase owns t, makes that worker's job applied and queues the
\* registry write of its jobKey, also when an earlier, done worker used t.
Owners(t) ==
  {w \in CurWorkers(tabWorkers) :
     tabWorkers[w].tabId = t /\ tabWorkers[w].state # "done"}

CompletionReachesOwner ==
  [][ \A t \in WizardTabs :
        OnTabSubmitted(t) =>
          \A w \in Owners(t) :
            /\ jobs'[tabWorkers[w].job].status = "applied"
            /\ Len(storeQueue') = Len(storeQueue) + 1
    ]_vars

\* ---- C14: a finished worker is answered by at most one replacement,
\* launched either by its finish callback or by the pool loop, never by
\* both: the workers of a run number at most its initial batch plus one
\* for every worker whose job has finished (applied, skipped or failed).
OneReplacementPerFinish ==
  \A r \in 1..Len(runs) :
    r = Len(runs) =>
      Cardinality(CurWorkers(tabWorkers))
        <= runs[r].numWorkers
           + Cardinality({w \in CurWorkers(tabWorkers) :
                jobs[tabWorkers[w].job].status # "skipped"
                \/ jobs[tabWorkers[w].job].skipReason # "in_progress"})

\* ---- C15: an exception at any step of a worker's pipeline (a tab call
\* of the navigation, a registry write of the skip path or of the
\* completion handler) leaves the worker's job failed and the worker done.
ExceptionFailsJob ==
  [][ \A c \in Chains :
        (ChainNav(c, "throw") \/ ChainSaveFails(c)) =>
          /\ jobs'[tabWorkers[c.w].job].status = "failed"
          /\ tabWorkers'[c.w].state = "done"
    ]_vars

\* ---- C16: lookup(label, inputType) returns an answer only if some stored
\* entry of that input type has a Jaccard score strictly above the
\* threshold 0.5; a best score equal to the threshold is a miss.
ScoresAbove(E, label, inputType, threshold) ==
  {i \in 1..Len(E) :
     /\ E[i].inputType = inputType
     /\ Greater(similarity(Tokenized[label], E[i].tokens), threshold)}

HitOnlyAboveThreshold ==
  [][ \A l \in Labels, t \in InputTypes, o \in OptionArgs :
        (/\ reply'.op = "lookup" /\ reply'.label = l
         /\ CacheLookup(l, t, o)
         /\ reply'.answer # Null) =>
          ScoresAbove(LoadedEntries, l, t, DEFAULT_THRESHOLD) # {}
    ]_vars

\* ---- C17: round trip.  When the cache holds a single entry of type t,
\* stored for label l1 with answer a, lookup(l2, t) returns a for every l2
\* whose token set has a Jaccard score above 0.5 with that of l1, and no
\* answer for an l2 whose token set shares no token with that of l1.
OfType(E, t) == {i \in 1..Len(E) : E[i].inputType = t}

RoundTrip ==
  [][ \A l2 \in Labels, t \in InputTypes :
        (/\ reply'.op = "lookup" /\ reply'.label = l2
         /\ CacheLookup(l2, t, Undefined)
         /\ Cardinality(OfType(entries', t)) = 1)
          => LET e == entries'[CHOOSE i \in OfType(entries', t) : TRUE]
                 score == similarity(Tokenized[l2], Tokenized[e.label])
             IN /\ Greater(score, DEFAULT_THRESHOLD)
                     => reply'.answer = e.answer
                /\ Tokenized[l2] \cap Tokenized[e.label] = {}
                     => reply'.answer = Null
    ]_vars

\* 'What is your phone number?' stored with answer 456 and found again
\* under 'Your phone number'
RoundTripHit ==
  /\ reply = [op |-> "lookup", label |-> "Your phone number",
              answer |-> "456"]
  /\ Len(entries) = 1
  /\ entries[1].label = "What is your phone number?"
  /\ entries[1].inputType = "text"

\* ---- C18: store(label, inputType, answer, options) updates an entry in
\* place (answer and given option list replaced, count unchanged) exactly
\* when an entry of that input type scores above 0.85 against the label's
\* tokens, and appends exactly one entry otherwise; no entry is deleted and
\* no entry of another input type is modified.
StoreUpdatesOrAppends ==
  [][ \A l \in Labels, t \in InputTypes, a \in CacheAnswers,
         o \in OptionArgs :
        (/\ reply'.op = "store" /\ reply'.label = l
         /\ CacheStore(l, t, a, o)) =>
          LET E == LoadedEntries
              near == ScoresAbove(E, l, t, UPDATE_THRESHOLD)
          IN /\ near # {} =>
                  /\ Len(entries') = Len(E)
                  /\ \E i \in near :
                       /\ entries'[i].answer = a
                       /\ o.given => entries'[i].options = o.list
             /\ near = {} =>
                  /\ Len(entries') = Len(E) + 1
                  /\ SubSeq(entries', 1, Len(E)) = E
                  /\ entries'[Len(E) + 1].answer = a
             /\ \A i \in 1..Len(E) :
                  E[i].inputType # t => entries'[i] = E[i]
    ]_vars

\* ---- C19: for the options ["Yes", "No"] the answer "no, not applicable"
\* resolves to "No" on both paths: found in the cache for a radio field, and
\* generated by the answer-generation service.
CachedAnswer(l, t) == lookup(LoadedEntries, l, t, Undefined)

ResolvesToNo ==
  [][ \A l \in Questions :
        /\ (/\ reply'.op = "lookup" /\ reply'.label = l
            /\ CacheLookup(l, "radio", YesNo)
            /\ CachedAnswer(l, "radio") = "no, not applicable")
             => reply'.answer = "No"
        /\ \A errorContext \in BOOLEAN :
             (/\ reply'.op = "ask" /\ reply'.label = l
              /\ AskClaude(l, YesNo, errorContext, "no, not applicable")
              /\ (errorContext \/ CachedAnswer(l, "text") = Null))
               => reply'.answer = "No"
    ]_vars

\* ---- C20: a free-text answer to a closed question resolves to the option
\* with the highest similarity 1 - levenshtein / max(len), and only if that
\* similarity exceeds 0.3; otherwise no option is returned.  This holds for
\* answers found in the cache and for answers of the service.
Ratio ==
  [a \in StoredAnswers, o \in {"Yes", "No"}
     |-> editDistanceRatio(toLowerCase(a), toLowerCase(o))]

ResolvedByRatio(a, r) ==
  IF \E o \in {"Yes", "No"} : Greater(Ratio[a, o], [n |-> 3, d |-> 10])
    THEN /\ r \in {"Yes", "No"}
         /\ \A o \in {"Yes", "No"} : ~Greater(Ratio[a, o], Ratio[a, r])
    ELSE r = Null

ClosedSetByRatio ==
  [][ \A l \in Questions :
        /\ (/\ reply'.op = "lookup" /\ reply'.label = l
            /\ CacheLookup(l, "radio", YesNo)
            /\ CachedAnswer(l, "radio") # Null)
             => ResolvedByRatio(CachedAnswer(l, "radio"), reply'.answer)
        /\ \A errorContext \in BOOLEAN, backend \in Answers :
             (/\ reply'.op = "ask" /\ reply'.label = l
              /\ AskClaude(l, YesNo, errorContext, backend)
              /\ (errorContext \/ CachedAnswer(l, "text") = Null))
               => ResolvedByRatio(backend, reply'.answer)
    ]_vars

\* ---- C21: with personalization enabled, a job whose apply button is being
\* clicked, whose wizard is awaited or whose form is being filled has all
\* its tailored artifacts (CV, CV with cover letter, cover letter): a job
\* whose artifacts could not all be obtained never gets that far.
TailoredBeforeApply ==
  settings.personalization =>
    /\ \A c \in Chains :
         c.pc \in {"click", "wizard", "poll"} => c.pdfs = "all"
    /\ \A w \in CurWorkers(tabWorkers) :
         tabWorkers[w].state \in {"filling", "waiting_review"}
           => tabWorkers[w].cvPayload = "all"

\* ---- C22: once stop() has returned, no continuation of a worker sends a
\* page-driver command (scrape, click apply, wizard poll, fill) and none
\* issues a registry write: each aborts at its next suspension point.  (A
\* tab is created by the launch itself, before the first suspension.)
CommandSent(d) == d.pc \in {"prep", "click", "poll", "fill", "retry"}
StopAborts ==
  [][stopRequested =>
       /\ \A d \in BagToSet(chains') \ BagToSet(chains) : ~CommandSent(d)
       /\ Len(storeQueue') <= Len(storeQueue)]_vars

\* ---- C23: after stop() no continuation of the stopped run assigns a state
\* other than idle: the end of discovery does not set and broadcast
\* 'applying' once the cancellation flag is set.
IdleAfterStop == \A r \in Runs : runs[r].poolStart # "stopped"

\* ---- C24: when FILL_AND_ADVANCE is answered needs_input, the state of the
\* orchestrator becomes waiting_user, and the job of the worker is left as
\* it was (not failed, not skipped for the field).
NeedsInputSurfaces ==
  [][\A c \in Chains :
       (c.pc = "fill" /\ ChainFill(c, "needs_input"))
         => (state' = "waiting_user" /\ jobs' = jobs)]_vars

\* ---- C25: the fill loop ends: a worker in state filling comes to
\* waiting_review or done, whatever the page driver answers to the fill
\* commands (continued to every one of them included).
FillLoopEnds ==
  \A w \in 1..MaxKeys :
    (w <= Len(tabWorkers) /\ tabWorkers[w].state = "filling")
      ~> (w <= Len(tabWorkers)
            /\ tabWorkers[w].state \in {"waiting_review", "done"})

\* ---- C26: with an apply limit set, once the pending jobs meet the limit
\* discovery is over: no run waits for another search-result page (of the
\* current query or of a later one) and no further job is enqueued.
AwaitsPage(rec) == rec.pc \in {"firstPage", "batch"}
ExitsEarlyAtLimit ==
  [][/\ EnoughPending(jobs) => jobs' = jobs
     /\ EnoughPending(jobs') => \A r \in 1..Len(runs') : ~AwaitsPage(runs'[r])
    ]_vars

\* ---- C27: a query is over once its latest three pages in a row have
\* added no job to the queue (they were empty, or all their links were
\* duplicates or known to the registry): no further round of pages is
\* requested then.
EndsAfterThreeBarrenPages ==
  \A r \in Runs :
    runs[r].pc = "batch" => runs[r].barren < EMPTY_STREAK_LIMIT

\* ---- C28: whatever the order in which the pages of a parallel round
\* complete, the round leaves the queue as a walk of the same pages one
\* after the other in page-number order leaves it.
RECURSIVE SequentialWalk(_, _, _)
SequentialWalk(pages, seen, J) ==
  IF pages = <<>> THEN J
  ELSE LET res == AddLinks(Head(pages), seen, J)
       IN SequentialWalk(Tail(pages), res.seen, res.jobs)

MergedInPageOrder ==
  [][\A r \in Runs :
       runs[r].pc = "batch" =>
         \A pages \in BatchChoices(runs[r].searchIdx, runs[r].nextPage,
                                    runs[r].batch),
            order \in Orders(runs[r].batch), jobCount \in EstChoices :
           RunBatch(r, pages, order, jobCount)
             => jobs' = SequentialWalk(pages, runs[r].seen, jobs)]_vars

\* a round of two pages that completed in reverse order has put one job of
\* each page in the queue
MergedOutOfOrder ==
  \E r \in Runs :
    /\ runs[r].pc = "delay" /\ runs[r].order = <<2, 1>>
    /\ Len(jobs) >= 2
    /\ site.queries[1][runs[r].nextPage - 2] = <<jobs[Len(jobs) - 1].jobKey>>
    /\ site.queries[1][runs[r].nextPage - 1] = <<jobs[Len(jobs)].jobKey>>
    /\ jobs[Len(jobs) - 1].jobKey # jobs[Len(jobs)].jobKey

\* ---- C29: after an unknown or missing reply to a fill command the call
\* sends nothing until its delay is over, then sends exactly one more fill
\* command, and whatever is answered to that one (continued and no reply
\* included) the worker enters waiting_review and the call sends no more.
InFlight(C) ==
  BagCardinality([d \in {e \in BagToSet(C) : e.pc \in {"fill", "retry"}}
                    |-> CopiesIn(d, C)])
RetriesOnceThenReview ==
  [][\A c \in Chains :
       /\ (c.pc = "fill" /\ ChainFill(c, "none"))
            => InFlight(chains') = InFlight(chains) - 1
       /\ (c.pc = "retryWait" /\ ChainRetryWait(c))
            => InFlight(chains') = InFlight(chains) + 1
       /\ c.pc = "retry" =>
            \A a \in FillActions :
              ChainRetry(c, a)
                => /\ tabWorkers'[c.w].state = "waiting_review"
                   /\ chains' = Without(c)]_vars

\* the retry of a fill command is on its way
RetrySent == \E c \in Chains : c.pc = "retry"

\* ---- C30: a worker sends at most WIZARD_ATTEMPTS (15) WIZARD_READY polls;
\* when the last of them is not answered ready the job is failed, the worker
\* is done and no continuation is left to send it a fill command; and a
\* done worker of a failed job stays done and is sent no fill command.
Filling(C, w) ==
  \E d \in BagToSet(C) : d.w = w /\ d.pc \in {"fill", "refill", "retryWait",
                                                "retry"}
GivenUp(W, J, w) == W[w].state = "done" /\ J[W[w].job].status = "failed"
WizardPollsBounded ==
  [][/\ \A d \in BagToSet(chains') : d.attempt <= WIZARD_ATTEMPTS
     /\ \A c \in Chains :
          (c.pc = "poll" /\ c.attempt = WIZARD_ATTEMPTS
             /\ ChainWizard(c, FALSE))
            => GivenUp(tabWorkers', jobs', c.w) /\ ~Filling(chains', c.w)
     /\ \A w \in 1..Len(tabWorkers) :
          GivenUp(tabWorkers, jobs, w)
            => GivenUp(tabWorkers', jobs', w) /\ ~Filling(chains', w)
    ]_vars

\* the last poll the loop allows is on its way
LastPollSent == \E c \in Chains : c.pc = "poll" /\ c.attempt = WIZARD_ATTEMPTS

\* ---- C31: every terminal outcome of a job's pipeline (off-site redirect,
\* external apply, no apply control, required generation failed, wizard
\* never interactive) finalizes the job with a reason of its own: the step
\* that finalizes the job never leaves 'in_progress' as its skipReason.
TerminalOutcome(c) ==
  \/ ChainNav(c, "offsite")
  \/ \E d \in BOOLEAN, a \in Artifacts : ChainPrep(c, d, a)
  \/ \E a \in {"external", "not_found"} : ChainClick(c, a)
  \/ ChainWizard(c, FALSE)
ReasonPerOutcome ==
  [][\A c \in Chains :
       (c.pc \in {"nav", "prep", "click", "poll"} /\ jobs' # jobs
          /\ TerminalOutcome(c))
         => jobs'[tabWorkers[c.w].job].skipReason # "in_progress"]_vars

\* ---- C32: when a page of the current query cannot be collected (navigation
\* error, tab disappeared) and the query goes on, discovery replaces the tab
\* and asks for the same page again: the next round starts no later than the
\* first failed page, on a tab created after the failure.
FirstFailed(errors) == CHOOSE i \in errors : \A j \in errors : i <= j
RetriesFailedPage ==
  [][\A r \in Runs :
       runs[r].pc = "batch" =>
         \A pages \in BatchChoices(runs[r].searchIdx, runs[r].nextPage,
                                   runs[r].batch),
            errors \in SUBSET (1..runs[r].batch),
            order \in Orders(runs[r].batch), jobCount \in EstChoices :
           (errors # {} /\ RunRound(r, pages, errors, order, jobCount)
              /\ runs'[r].pc = "delay")
             => /\ runs'[r].nextPage
                     <= runs[r].nextPage + FirstFailed(errors) - 1
                /\ nextTabId' > nextTabId]_vars

\* ---- C33: no store() call on the answer cache is lost to another one,
\* also when the calls overlap while the cache is loading: once every call
\* has returned, each call made with a label that has tokens has its entry
\* (an entry of its input type that store treats as the same question) both
\* in memory and in the persisted document.
Present(E, call) ==
  \E i \in 1..Len(E) :
    /\ E[i].inputType = call.inputType
    /\ Greater(similarity(Tokenized[call.label], E[i].tokens),
               UPDATE_THRESHOLD)
NoStoreLost ==
  cacheQueue = <<>> =>
    \A n \in 1..Len(stores) :
      Tokenized[stores[n].label] # {} =>
        Present(entries, stores[n]) /\ Present(cacheStored, stores[n])

\* ---- C34: once pause() has set the state to paused, only resume() takes
\* it back to a working state: no step of the discovery or of the worker
\* pool replaces paused by collecting or applying.
PausedUntilResumed ==
  [][(state = "paused" /\ state' \in {"collecting", "applying"})
       => Resume]_vars

\* ---- C35: at most one run is active.  Once a later start() has been
\* accepted, the loops of an earlier run make no progress: no step of the
\* earlier run creates a tab, enqueues a job, claims a job or assigns the
\* state.
RunStep(r) ==
  \/ RunLoaded(r)
  \/ \E links \in PageChoices(runs[r].searchIdx, 1),
        jobCount \in EstChoices, cards \in CardChoices :
       RunFirstPage(r, links, jobCount, cards)
  \/ \E pages \in BatchChoices(runs[r].searchIdx, runs[r].nextPage,
                               runs[r].batch),
        order \in Orders(runs[r].batch), jobCount \in EstChoices :
       RunBatch(r, pages, order, jobCount)
  \/ RunDelay(r)
  \/ RunLaunchWait(r)
  \/ RunPollWait(r)
OneActiveRun ==
  [][\A r \in Runs :
       (r < Len(runs) /\ runs[r].pc # "settled" /\ RunStep(r))
         => /\ nextTabId' = nextTabId
            /\ jobs' = jobs
            /\ tabWorkers' = tabWorkers
            /\ state' = state]_vars

\* ---- C36: with an apply limit L > 0 the number of applications counted
\* never exceeds L, whatever the concurrency limit and the order of the
\* completion signals.
LimitRespected ==
  settings.maxApplies > 0 => appliedCount <= settings.maxApplies

\* ---- C37: the applying phase ends once no worker is active and no
\* further job can be claimed: from a state where the apply limit has been
\* reached, no worker is active and pending jobs remain, the run leaves the
\* pool loop and the state returns to idle (stop() is not called).
LimitReachedAtRest ==
  /\ state = "applying"
  /\ settings.maxApplies > 0 /\ appliedCount >= settings.maxApplies
  /\ activeWorkers(tabWorkers) = 0
  /\ chains = EmptyBag
  /\ hasPending(jobs)
PoolEndsAtLimit == LimitReachedAtRest ~> state = "idle"

\* ---- C38: appliedCount is the number of entries of the queue with status
\* applied; a completion signal delivered twice for the same tab is counted
\* once.
AppliedEntries == {j \in CurJobs(jobs) : jobs[j].status = "applied"}
CountsAppliedEntries == appliedCount = Cardinality(AppliedEntries)

\* ---- C39: read your writes.  Right after store(l, t, a) has completed,
\* for a label l with tokens and an input type t that is not closed,
\* lookup(l, t) returns a, whatever the cache held before.
ReadYourWrites ==
  [][\A l \in LongLabels, a \in CacheAnswers :
       (/\ reply'.op = "store" /\ reply'.label = l
        /\ Tokenized[l] # {}
        /\ CacheStore(l, "text", a, Undefined))
         => lookup(entries', l, "text", Undefined) = a]_vars

\* ---- C40: every job a worker finalizes as skipped (redirected_external,
\* cv_generation_failed, external_apply, no_apply_button) is known to the
\* Job Registry once the worker is done, so that a later discovery drops it.
SkipReasons == {"redirected_external", "cv_generation_failed",
                "external_apply", "no_apply_button"}
SkippedJobsAreKnown ==
  \A w \in Workers :
    (/\ tabWorkers[w].state = "done"
     /\ jobs[tabWorkers[w].job].status = "skipped"
     /\ jobs[tabWorkers[w].job].skipReason \in SkipReasons)
      => isKnown(JobKeyOf(w))

====
